---- MODULE Spec2Model ----
(***************************************************************************)
(* cx_kit.utils.orchestration: build_dependency_graph and                  *)
(* calculate_cache_key, over the WorkflowStep / Block schemas.             *)
(*                                                                         *)
(* Python strings are sequences of one-character strings, so that          *)
(* str.split, f-string formatting, json.dumps and the byte stream fed to   *)
(* the hasher are computed, not assumed.  Optional[T] is the record        *)
(* [some, val]: None is [some |-> FALSE, val |-> <<>>].                    *)
(***************************************************************************)
EXTENDS Integers, Sequences, FiniteSets, TLC

VARIABLES
    steps,      \* build_dependency_graph: the `steps` argument
    pc,         \* position of the process
    result,     \* outcome of build_dependency_graph: the DiGraph or the ValueError
    order,      \* the execution order the caller derives from the returned graph
    args1,      \* calculate_cache_key: the arguments of the first call
    args2,      \* calculate_cache_key: the arguments of the second call
    hasher,     \* the bytes fed to the hasher of the call in progress or last ended
    key1,       \* the key the first call returned
    key2,       \* the key the second call returned
    raised,     \* the exception the last call of calculate_cache_key ended with
    run1,       \* a workflow run: the rendered blocks and the key of each step
    run2,       \* the next run of the workflow, one block edited
    calls,      \* two threads inside calculate_cache_key: the locals of each call
    heap,       \* the dict objects of the variable scopes, by address
    contexts,   \* the RunContext objects, in order of creation
    made,       \* what each RunContext held when it was created
    call,       \* the last call of RunContext.with_updates
    data,       \* safe_serialize: the `data` argument
    serialized, \* what safe_serialize(data) returned
    value,      \* sql_quote_filter: the `value` argument
    quoted,     \* what sql_quote_filter(value) returned
    raw_secrets,    \* ConnectionSecrets._raw_secrets
    coros,          \* the coroutines running get, get_all or parse_as on the instance
    backend_calls,  \* how many times the backend's get_all has been awaited
    plugins,        \* what the capability loader discovers and how each capability loads
    tool_schemas,   \* ToolRegistry._tool_schemas
    tool_map,       \* ToolRegistry._tool_map
    lookup          \* the last call of get_capability_for_function and how it ended

graphVars == <<steps, pc, result, order>>

keyVars == <<args1, args2, hasher, key1, key2, raised>>

runVars == <<run1, run2>>

threadVars == <<calls>>

contextVars == <<heap, contexts, made, call>>

serializeVars == <<data, serialized>>

templatingVars == <<value, quoted>>

secretsVars == <<raw_secrets, coros, backend_calls>>

registryVars == <<plugins, tool_schemas, tool_map, lookup>>

otherVars == <<contextVars, serializeVars, templatingVars, secretsVars, registryVars>>

orchestrationVars ==
    <<steps, pc, result, order, args1, args2, hasher, key1, key2, raised, run1, run2, calls>>

vars == <<orchestrationVars, otherVars>>

----------------------------------------------------------------------------
(* Bounds of the explored inputs *)

\* most dependency references (depends_on ids plus inputs entries) in one list
MaxRefs == 3

\* most semantic fields that hold a value in the block of a first call
MaxFields == 2

\* most references (depends_on ids and inputs entries) in the step list of a
\* workflow whose keys are computed
MaxRunRefs == 2

----------------------------------------------------------------------------
(* Python values *)

None == [some |-> FALSE, val |-> <<>>]

Some(v) == [some |-> TRUE, val |-> v]

\* bool(x) of an Optional[List]: None and [] are both falsy
Truthy(opt) == opt.some /\ Len(opt.val) > 0

Range(s) == {s[i] : i \in 1..Len(s)}

RECURSIVE SeqsUpTo(_, _)
SeqsUpTo(S, k) ==
    IF k <= 0 THEN {<<>>}
    ELSE LET shorter == SeqsUpTo(S, k - 1)
         IN  shorter \cup {Append(s, x) : s \in {t \in shorter : Len(t) = k - 1}, x \in S}

----------------------------------------------------------------------------
(* The step lists explored *)

\* the ids of the steps, in declaration order; a list holds 1..Len(IdPool) steps
IdPool == << <<"A">>, <<"B">>, <<"C">> >>

MaxSteps == Len(IdPool)

\* an id that no step of any explored list carries
UnknownId == <<"Z">>

PoolIds == {IdPool[i] : i \in 1..MaxSteps}

\* ids a depends_on list may hold
DepNames == PoolIds \cup {UnknownId}

\* strings an inputs list may hold: "A" (no separator), "<id>.x", "Z.x"
\* and "A.B.x" (two separators)
InputStrs ==
    {IdPool[1]}
    \cup {p \o <<".", "x">> : p \in PoolIds \cup {UnknownId}}
    \cup {IdPool[1] \o <<".">> \o IdPool[2] \o <<".", "x">>}

Step(id, depends_on, inputs) ==
    [id |-> id, depends_on |-> depends_on, inputs |-> inputs]

SeqsOfLen(S, k) == {s \in SeqsUpTo(S, k) : Len(s) = k}

\* the values of depends_on with d ids; `empty` is how a list writes "no
\* dependencies": None or []
DependsOnOfLen(d, empty) ==
    IF d = 0 THEN {empty} ELSE {Some(l) : l \in SeqsOfLen(DepNames, d)}

\* the steps with a given id built from the given depends_on and inputs values
StepsOver(id, deps, inps) == {Step(id, dep, inp) : dep \in deps, inp \in inps}

\* the steps with a given id that hold exactly r references
StepsWithRefs(id, r, empty) ==
    UNION {StepsOver(id, DependsOnOfLen(d, empty), SeqsOfLen(InputStrs, r - d)) : d \in 0..r}

Prepend(firsts, rests) == {<<st>> \o rest : st \in firsts, rest \in rests}

RECURSIVE SumTo(_, _)
SumTo(a, k) == IF k = 0 THEN 0 ELSE a[k] + SumTo(a, k - 1)

\* how many references each of n steps holds, at most MaxRefs in all
RefAllocations(n) == {a \in [1..n -> 0..MaxRefs] : SumTo(a, n) <= MaxRefs}

\* the lists in which step k carries id IdPool[k] and holds a[k] references
\* (ids are unique within a list, the caller's guarantee, so the ids are
\* fixed up to renaming)
RECURSIVE StepListsWith(_, _, _)
StepListsWith(a, k, empty) ==
    IF k > Len(a) THEN {<<>>}
    ELSE Prepend(StepsWithRefs(IdPool[k], a[k], empty), StepListsWith(a, k + 1, empty))

----------------------------------------------------------------------------
(* networkx.DiGraph, as far as build_dependency_graph uses it *)

\* nodes in insertion order; step_data: the nodes that carry the attribute,
\* with the index of the step it holds; edges: (u, v) pairs
EmptyDag == [nodes |-> <<>>, step_data |-> {}, edges |-> {}]

HasNode(dag, n) == \E i \in 1..Len(dag.nodes) : dag.nodes[i] = n

\* a node added once: an old node keeps the attributes it has
add_node_once(dag, n, idx) ==
    [dag EXCEPT !.nodes = IF HasNode(dag, n) THEN @ ELSE Append(@, n),
                !.step_data = IF \E e \in @ : e[1] = n THEN @ ELSE @ \cup {<<n, idx>>}]

\* DiGraph.add_node(n, step_data=step): a new node, or new attributes on an old one
add_node(dag, n, idx) ==
    [dag EXCEPT !.nodes = IF HasNode(dag, n) THEN @ ELSE Append(@, n),
                !.step_data = {e \in @ : e[1] # n} \cup {<<n, idx>>}]

\* DiGraph.add_edge(u, v): creates the missing endpoints without attributes
add_edge(dag, u, v) ==
    LET withU == IF HasNode(dag, u) THEN dag.nodes ELSE Append(dag.nodes, u)
        withV == IF \E i \in 1..Len(withU) : withU[i] = v THEN withU ELSE Append(withU, v)
    IN  [dag EXCEPT !.nodes = withV, !.edges = @ \cup {<<u, v>>}]

NodeSet(dag) == Range(dag.nodes)

\* the nodes reachable from n over at least one edge
RECURSIVE ReachFrom(_, _, _)
ReachFrom(edges, frontier, seen) ==
    LET next == {e[2] : e \in {f \in edges : f[1] \in frontier}} \ seen
    IN  IF next = {} THEN seen ELSE ReachFrom(edges, next, seen \cup next)

Descendants(edges, n) == ReachFrom(edges, {n}, {})

\* a check that looks only at loops and at pairs of opposite edges
AcyclicOverTwoNodes(dag) ==
    \A e \in dag.edges : e[1] # e[2] /\ <<e[2], e[1]>> \notin dag.edges

\* networkx.is_directed_acyclic_graph
is_directed_acyclic_graph(dag) ==
    \A n \in NodeSet(dag) : n \notin Descendants(dag.edges, n)

IsPermutationOf(s, S) ==
    /\ Len(s) = Cardinality(S)
    /\ Range(s) = S

\* the simple cycles of the graph, each as the node sequence n1, ..., nk with
\* edges n1->n2, ..., nk->n1; networkx.find_cycle returns one of them, which
\* one depending on its traversal
SimpleCycles(dag) ==
    {c \in UNION {[1..k -> NodeSet(dag)] : k \in 1..Len(dag.nodes)} :
        /\ \A i, j \in 1..Len(c) : i # j => c[i] # c[j]
        /\ \A i \in 1..Len(c) : <<c[i], c[(i % Len(c)) + 1]>> \in dag.edges}

\* the edge list find_cycle(dag, orientation="original") reports for a cycle
CycleEdges(c) == [i \in 1..Len(c) |-> <<c[i], c[(i % Len(c)) + 1]>>]

Position(s, x) == CHOOSE i \in 1..Len(s) : s[i] = x

\* the topological orders of a graph: what networkx.topological_sort may yield
TopologicalOrders(dag) ==
    {o \in [1..Len(dag.nodes) -> NodeSet(dag)] :
        /\ IsPermutationOf(o, NodeSet(dag))
        /\ \A e \in dag.edges : Position(o, e[1]) < Position(o, e[2])}

----------------------------------------------------------------------------
(* build_dependency_graph *)

\* "." in input_str
HasSeparator(s) == \E i \in 1..Len(s) : s[i] = "."

\* input_str.rsplit(".", 1)[0]: the text before the last "."
SplitLast(s) ==
    LET last == CHOOSE i \in 1..Len(s) : s[i] = "." /\ \A j \in (i + 1)..Len(s) : s[j] # "."
    IN  SubSeq(s, 1, last - 1)

\* input_str.split(".", 1)[0]: the text before the first "."
SplitFirst(s) ==
    LET first == CHOOSE i \in 1..Len(s) : s[i] = "." /\ \A j \in 1..(i - 1) : s[j] # "."
    IN  SubSeq(s, 1, first - 1)

\* step_map = {step.id: step for step in steps}: each id with the last step
\* that carries it
step_map(ss) ==
    [id \in {ss[i].id : i \in 1..Len(ss)} |->
        CHOOSE i \in 1..Len(ss) : ss[i].id = id /\ \A j \in (i + 1)..Len(ss) : ss[j].id # id]

\* the running outcome of the loop: the graph so far, or the ValueError
\* "Step '<step>' has an invalid dependency: '<dep>'"
Building(dag) == [kind |-> "ok", dag |-> dag, step |-> <<>>, dep |-> <<>>, cycle |-> <<>>]

InvalidDependency(step_id, dep_id) ==
    [kind |-> "invalid_dependency", dag |-> EmptyDag, step |-> step_id,
     dep |-> dep_id, cycle |-> <<>>]

\* ValueError "Workflow contains a circular dependency: <cycle>"
CircularDependency(cycle) ==
    [kind |-> "circular_dependency", dag |-> EmptyDag, step |-> <<>>,
     dep |-> <<>>, cycle |-> cycle]

NoResult == [kind |-> "none", dag |-> EmptyDag, step |-> <<>>, dep |-> <<>>, cycle |-> <<>>]

\* the edge added without looking the id up in step_map
ExplicitDependencyUnchecked(acc, step, dep_id, map) ==
    Building(add_edge(acc.dag, dep_id, step.id))

\* the edge added from the step to its dependency
ExplicitDependencyReversed(acc, step, dep_id, map) ==
    IF dep_id \in DOMAIN map
    THEN Building(add_edge(acc.dag, step.id, dep_id))
    ELSE InvalidDependency(step.id, dep_id)

\* one dep_id of step.depends_on
ExplicitDependency(acc, step, dep_id, map) ==
    IF dep_id \in DOMAIN map
    THEN Building(add_edge(acc.dag, dep_id, step.id))
    ELSE InvalidDependency(step.id, dep_id)

\* for dep_id in step.depends_on, from position j; the raise leaves the loop
RECURSIVE ExplicitDependencies(_, _, _, _)
ExplicitDependencies(acc, step, j, map) ==
    IF acc.kind # "ok" \/ j > Len(step.depends_on.val) THEN acc
    ELSE ExplicitDependencies(
            ExplicitDependency(acc, step, step.depends_on.val[j], map), step, j + 1, map)

\* the inputs of a step read as plain data: no edge
ImplicitDependencyDropped(dag, step, input_str, map) == dag

\* the producer looked up without comparing it to the step's own id
ImplicitDependencyWithSelf(dag, step, input_str, map) ==
    IF HasSeparator(input_str)
    THEN LET dep_id == SplitFirst(input_str)
         IN  IF dep_id \in DOMAIN map
             THEN add_edge(dag, dep_id, step.id)
             ELSE dag
    ELSE dag

\* one input_str of step.inputs
ImplicitDependency(dag, step, input_str, map) ==
    IF HasSeparator(input_str)
    THEN LET dep_id == SplitFirst(input_str)
         IN  IF dep_id \in DOMAIN map /\ dep_id # step.id
             THEN add_edge(dag, dep_id, step.id)
             ELSE dag
    ELSE dag

RECURSIVE ImplicitDependencies(_, _, _, _)
ImplicitDependencies(dag, step, j, map) ==
    IF j > Len(step.inputs) THEN dag
    ELSE ImplicitDependencies(
            ImplicitDependency(dag, step, step.inputs[j], map), step, j + 1, map)

\* the body of `for step in steps` for the step at index i
AddStep(acc, ss, i, map) ==
    LET step == ss[i]
        noded == Building(add_node(acc.dag, step.id, i))
        explicit == IF Truthy(step.depends_on)
                    THEN ExplicitDependencies(noded, step, 1, map)
                    ELSE noded
    IN  IF explicit.kind # "ok" THEN explicit
        ELSE IF Len(step.inputs) > 0
             THEN Building(ImplicitDependencies(explicit.dag, step, 1, map))
             ELSE explicit

RECURSIVE AddSteps(_, _, _, _)
AddSteps(acc, ss, i, map) ==
    IF acc.kind # "ok" \/ i > Len(ss) THEN acc
    ELSE AddSteps(AddStep(acc, ss, i, map), ss, i + 1, map)

\* lines 42-64: the graph after the loop, or the invalid-dependency error
GraphOf(ss) == AddSteps(Building(EmptyDag), ss, 1, step_map(ss))

\* lines 66-74: what build_dependency_graph(ss) may end with
BuildOutcomes(ss) ==
    LET built == GraphOf(ss)
    IN  IF built.kind # "ok" THEN {built}
        ELSE IF is_directed_acyclic_graph(built.dag) THEN {built}
        ELSE {CircularDependency(CycleEdges(c)) : c \in SimpleCycles(built.dag)}

----------------------------------------------------------------------------
(* Python values held by a block, and json.dumps *)

PyNone == <<"none">>

PyStr(s) == <<"str", s>>

PyInt(n) == <<"int", n>>

PyList(items) == <<"list", items>>

\* a dict: its <<key, value>> items in insertion order
PyDict(items) == <<"dict", items>>

\* a value of a type json.dumps has no encoding for, by the name of its type
PyObject(type_name) == <<"object", type_name>>

\* Optional[str] as a Python value
PyOptStr(opt) == IF opt.some THEN PyStr(opt.val) ELSE PyNone

\* the characters used, in code point order
Ascii ==
    <<"\"", ".", "0", "1", "2", "3", "4", "5", "6", "7", "8", "9", ":",
      "A", "B", "C", "Z", "\\", "_",
      "a", "b", "c", "d", "e", "f", "g", "h", "i", "j", "k", "l", "m",
      "n", "o", "p", "q", "r", "s", "t", "u", "v", "w", "x", "y", "z">>

CodePoint(c) == CHOOSE i \in 1..Len(Ascii) : Ascii[i] = c

\* a < b for two str
RECURSIVE StrLess(_, _)
StrLess(a, b) ==
    IF Len(a) = 0 THEN Len(b) > 0
    ELSE IF Len(b) = 0 THEN FALSE
    ELSE IF a[1] = b[1] THEN StrLess(Tail(a), Tail(b))
    ELSE CodePoint(a[1]) < CodePoint(b[1])

\* k1 < k2 for two dict keys of one type (str or int)
KeyLess(k1, k2) ==
    IF k1[1] = "int" THEN k1[2] < k2[2] ELSE StrLess(k1[2], k2[2])

RECURSIVE InsertItem(_, _)
InsertItem(sorted, item) ==
    IF Len(sorted) = 0 THEN <<item>>
    ELSE IF KeyLess(item[1], sorted[1][1]) THEN <<item>> \o sorted
    ELSE <<sorted[1]>> \o InsertItem(Tail(sorted), item)

\* sorted(dct.items()): the items by ascending key
RECURSIVE SortedItems(_)
SortedItems(items) ==
    IF Len(items) = 0 THEN <<>>
    ELSE InsertItem(SortedItems(Tail(items)), items[1])

\* the items as the dict holds them (sort_keys=False)
ItemsAsInserted(items) == items

\* the order in which json.dumps(..., sort_keys=True) writes the items of a dict
OrderItems(items) == SortedItems(items)

\* str(n) for n >= 0
RECURSIVE Digits(_)
Digits(n) ==
    LET digit == <<"0", "1", "2", "3", "4", "5", "6", "7", "8", "9">>[(n % 10) + 1]
    IN  IF n < 10 THEN <<digit>> ELSE Digits(n \div 10) \o <<digit>>

\* the characters of a JSON string literal, quotes and backslashes escaped
RECURSIVE JsonEscaped(_)
JsonEscaped(s) ==
    IF Len(s) = 0 THEN <<>>
    ELSE (IF s[1] = "\"" \/ s[1] = "\\" THEN <<"\\", s[1]>> ELSE <<s[1]>>)
         \o JsonEscaped(Tail(s))

JsonString(s) == <<"\"">> \o JsonEscaped(s) \o <<"\"">>

\* a dict key as json.dumps writes it: a str as it is, an int as its digits
JsonKey(k) == IF k[1] = "int" THEN JsonString(Digits(k[2])) ELSE JsonString(k[2])

\* json.dumps(v, sort_keys=True) with the default separators ", " and ": "
RECURSIVE JsonText(_), JsonListItems(_, _), JsonDictItems(_, _)
JsonText(v) ==
    CASE v[1] = "none" -> <<"n", "u", "l", "l">>
      [] v[1] = "str"  -> JsonString(v[2])
      [] v[1] = "int"  -> Digits(v[2])
      [] v[1] = "list" -> <<"[">> \o JsonListItems(v[2], 1) \o <<"]">>
      [] v[1] = "dict" -> <<"{">> \o JsonDictItems(OrderItems(v[2]), 1) \o <<"}">>

JsonListItems(items, k) ==
    IF k > Len(items) THEN <<>>
    ELSE (IF k > 1 THEN <<",", " ">> ELSE <<>>)
         \o JsonText(items[k]) \o JsonListItems(items, k + 1)

JsonDictItems(items, k) ==
    IF k > Len(items) THEN <<>>
    ELSE (IF k > 1 THEN <<",", " ">> ELSE <<>>)
         \o JsonKey(items[k][1]) \o <<":", " ">> \o JsonText(items[k][2])
         \o JsonDictItems(items, k + 1)

json_dumps(v) == JsonText(v)

\* the types of the values json.dumps cannot encode, in the order the
\* encoder meets them
RECURSIVE UnsupportedTypes(_), UnsupportedInList(_, _), UnsupportedInDict(_, _)
UnsupportedTypes(v) ==
    CASE v[1] = "object" -> <<v[2]>>
      [] v[1] = "list"   -> UnsupportedInList(v[2], 1)
      [] v[1] = "dict"   -> UnsupportedInDict(OrderItems(v[2]), 1)
      [] OTHER           -> <<>>

UnsupportedInList(items, k) ==
    IF k > Len(items) THEN <<>>
    ELSE UnsupportedTypes(items[k]) \o UnsupportedInList(items, k + 1)

UnsupportedInDict(items, k) ==
    IF k > Len(items) THEN <<>>
    ELSE UnsupportedTypes(items[k][2]) \o UnsupportedInDict(items, k + 1)

NoError == [type |-> "", message |-> <<>>]

\* an error of the deriver's own that names the field of the payload
SerializationErrorNamingRun(type_name) ==
    [type |-> "SerializationError", message |-> <<"r", "u", "n">>]

\* TypeError: Object of type <type> is not JSON serializable
TypeErrorNotSerializable(type_name) ==
    [type |-> "TypeError",
     message |-> <<"O", "b", "j", "e", "c", "t", " ", "o", "f", " ", "t", "y", "p", "e", " ">>
                 \o type_name
                 \o <<" ", "i", "s", " ", "n", "o", "t", " ", "J", "S", "O", "N", " ", "s", "e", "r", "i", "a", "l", "i", "z", "a", "b", "l", "e">>]

\* dict.get(key): the value, or None
DictGet(d, key) ==
    IF \E i \in 1..Len(d[2]) : d[2][i][1] = key
    THEN d[2][CHOOSE i \in 1..Len(d[2]) : d[2][i][1] = key][2]
    ELSE PyNone

----------------------------------------------------------------------------
(* Block and calculate_cache_key *)

F_id == <<"i", "d">>
F_name == <<"n", "a", "m", "e">>
F_engine == <<"e", "n", "g", "i", "n", "e">>
F_connection == <<"c", "o", "n", "n", "e", "c", "t", "i", "o", "n">>
F_run == <<"r", "u", "n">>
F_content == <<"c", "o", "n", "t", "e", "n", "t">>
F_inputs == <<"i", "n", "p", "u", "t", "s">>
F_outputs == <<"o", "u", "t", "p", "u", "t", "s">>
F_depends_on == <<"d", "e", "p", "e", "n", "d", "s", "_", "o", "n">>
F_if_condition == <<"i", "f", "_", "c", "o", "n", "d", "i", "t", "i", "o", "n">>

\* the alias of if_condition
F_if == <<"i", "f">>

\* an extra field (the model allows extras): a free-text description
F_description == <<"d", "e", "s", "c", "r", "i", "p", "t", "i", "o", "n">>

\* a Block with every optional field at its default
DefaultBlock(id) ==
    [id |-> id, name |-> None, engine |-> None, connection |-> None,
     run |-> PyNone, content |-> None, inputs |-> <<>>, outputs |-> PyNone,
     depends_on |-> None, if_condition |-> None, description |-> None]

PyStrList(l) == PyList([i \in 1..Len(l) |-> PyStr(l[i])])

\* rendered_block.model_dump(by_alias=True): the fields in declaration order,
\* if_condition under its alias "if", then the extra fields the block carries
model_dump(block) ==
    PyDict(<< <<PyStr(F_id), PyStr(block.id)>>,
              <<PyStr(F_name), PyOptStr(block.name)>>,
              <<PyStr(F_engine), PyOptStr(block.engine)>>,
              <<PyStr(F_connection), PyOptStr(block.connection)>>,
              <<PyStr(F_run), block.run>>,
              <<PyStr(F_content), PyOptStr(block.content)>>,
              <<PyStr(F_inputs), PyStrList(block.inputs)>>,
              <<PyStr(F_outputs), block.outputs>>,
              <<PyStr(F_depends_on),
                IF block.depends_on.some THEN PyStrList(block.depends_on.val) ELSE PyNone>>,
              <<PyStr(F_if), PyOptStr(block.if_condition)>> >>
           \o (IF block.description.some
               THEN << <<PyStr(F_description), PyStr(block.description.val)>> >>
               ELSE <<>>))

semantic_fields ==
    {F_engine, F_connection, F_run, F_content, F_inputs, F_outputs, F_if_condition}

RECURSIVE IterationOrders(_)
IterationOrders(S) ==
    IF S = {} THEN {<<>>}
    ELSE UNION {{<<x>> \o p : p \in IterationOrders(S \ {x})} : x \in S}

\* every dumped field whose value is not None, semantic or not
DumpedFields(block_dict) ==
    {block_dict[2][i][1][2] : i \in {j \in 1..Len(block_dict[2]) : block_dict[2][j][2] # PyNone}}

\* the semantic fields whose dumped value is not None
PresentFields(block_dict) ==
    {k \in semantic_fields : DictGet(block_dict, PyStr(k)) # PyNone}

\* semantic_dict: one dict per order in which the set semantic_fields may be
\* iterated (the present fields are inserted in that order)
SemanticDicts(block_dict) ==
    {PyDict([i \in 1..Len(o) |-> <<PyStr(o[i]), DictGet(block_dict, PyStr(o[i]))>>]) :
        o \in IterationOrders(PresentFields(block_dict))}

\* one hasher kept across calls
SharedHasher == hasher

\* hashlib.sha256(): no bytes fed yet
NewHasher == <<>>

\* hasher.update(text.encode("utf-8")), for ASCII text one byte per character
Update(h, text) == h \o text

\* the hash written as it is: None as the text "None"
HashAsWritten(hash_val) == IF hash_val.some THEN hash_val.val ELSE <<"N", "o", "n", "e">>

\* `hash_val or ''`
HashOrEmpty(hash_val) == IF hash_val.some THEN hash_val.val ELSE <<>>

RECURSIVE InsertParent(_, _)
InsertParent(sorted, item) ==
    IF Len(sorted) = 0 THEN <<item>>
    ELSE IF StrLess(item[1], sorted[1][1]) THEN <<item>> \o sorted
    ELSE <<sorted[1]>> \o InsertParent(Tail(sorted), item)

\* sorted(parent_hashes.items()): by block id, which is unique in a dict
RECURSIVE SortedParents(_)
SortedParents(items) ==
    IF Len(items) = 0 THEN <<>>
    ELSE InsertParent(SortedParents(Tail(items)), items[1])

\* parent_hashes.items(): the items as the dict holds them
ItemsOfParents(parent_hashes) == parent_hashes

\* sorted(parent_hashes.items())
SortedItemsOfParents(parent_hashes) == SortedParents(parent_hashes)

\* the parent written by its id alone
ParentEntryWithoutHash(block_id, hash_val) == block_id \o <<":">>

\* f"{block_id}:{hash_val or ''}"
ParentEntry(block_id, hash_val) == block_id \o <<":">> \o HashOrEmpty(hash_val)

\* the loop over the parents: one entry fed after the other
RECURSIVE UpdateParents(_, _, _)
UpdateParents(h, items, k) ==
    IF k > Len(items) THEN h
    ELSE UpdateParents(Update(h, ParentEntry(items[k][1], items[k][2])), items, k + 1)

\* the hasher when the capability version is not fed
FedWithoutVersion(args, semantic_dict) ==
    UpdateParents(Update(NewHasher, json_dumps(semantic_dict)),
                  SortedItemsOfParents(args.parent_hashes), 1)

\* the hasher at the end of calculate_cache_key, for one semantic_dict
Fed(args, semantic_dict) ==
    LET h1 == Update(NewHasher, json_dumps(semantic_dict))
        h2 == Update(h1, args.capability_version)
    IN  UpdateParents(h2, SortedItemsOfParents(args.parent_hashes), 1)

\* hasher.hexdigest(): SHA-256 taken as collision-free, so the digest stands
\* for the bytes fed and is written as those bytes
hexdigest(h) == h

\* f"sha256:{hasher.hexdigest()}"
KeyOf(h) == <<"s", "h", "a", "2", "5", "6", ":">> \o hexdigest(h)

\* how a call ends for one semantic_dict: json.dumps raises before anything
\* is fed to the hasher, or the key is returned
CallOutcome(args, semantic_dict) ==
    LET unsupported == UnsupportedTypes(semantic_dict)
        fed == Fed(args, semantic_dict)
    IN  IF Len(unsupported) > 0
        THEN [hasher |-> NewHasher, key |-> <<>>,
              raised |-> TypeErrorNotSerializable(unsupported[1])]
        ELSE [hasher |-> fed, key |-> KeyOf(fed), raised |-> NoError]

----------------------------------------------------------------------------
(* The arguments of calculate_cache_key that are explored *)

Args(block, capability_version, parent_hashes) ==
    [block |-> block, capability_version |-> capability_version,
     parent_hashes |-> parent_hashes]

\* the fields of a Block that a call may set
BlockFields ==
    {"name", "engine", "connection", "run", "content", "inputs", "outputs",
     "depends_on", "if_condition", "description"}

\* the fields named in semantic_fields
SemanticFieldsOfBlock ==
    {"engine", "connection", "run", "content", "inputs", "outputs", "if_condition"}

\* run payloads: nested mappings, string and integer keys, both insertion
\* orders, and a set as a value
RunValues ==
    {PyDict(<<>>),
     PyDict(<< <<PyStr(<<"a">>), PyStr(<<"1">>)>> >>),
     PyDict(<< <<PyStr(<<"a">>), PyInt(1)>> >>),
     PyDict(<< <<PyStr(<<"a">>), PyDict(<< <<PyStr(<<"1">>), PyStr(<<"x">>)>> >>)>> >>),
     PyDict(<< <<PyStr(<<"a">>), PyDict(<< <<PyInt(1), PyStr(<<"x">>)>> >>)>> >>),
     PyDict(<< <<PyStr(<<"a">>), PyInt(1)>>, <<PyStr(<<"b">>), PyInt(12)>> >>),
     PyDict(<< <<PyStr(<<"b">>), PyInt(12)>>, <<PyStr(<<"a">>), PyInt(1)>> >>),
     PyDict(<< <<PyStr(<<"a">>), PyObject(<<"s", "e", "t">>)>> >>)}

OutputsValues ==
    {PyList(<<>>), PyList(<<PyStr(<<"o">>)>>), PyDict(<<>>),
     PyDict(<< <<PyStr(<<"o">>), PyStr(<<"p">>)>> >>)}

\* the values other than the default that each field takes
FieldValues ==
    [f \in BlockFields |->
        CASE f = "name"         -> {Some(<<"n">>)}
          [] f = "description"  -> {Some(<<"d">>)}
          [] f = "engine"       -> {Some(<<"e">>), Some(<<"f">>)}
          [] f = "connection"   -> {Some(<<"c">>)}
          [] f = "run"          -> RunValues
          [] f = "content"      -> {Some(<<"q">>), Some(<<"q", "\"">>)}
          [] f = "inputs"       -> {<<IdPool[1] \o <<".", "x">> >>}
          [] f = "outputs"      -> OutputsValues
          [] f = "depends_on"   -> {Some(<<>>), Some(<<IdPool[1]>>)}
          [] f = "if_condition" -> {Some(<<"t">>), Some(<<"u">>)}]

\* the blocks that set exactly the fields of `fields` to a value other than the default
RECURSIVE BlocksSetting(_)
BlocksSetting(fields) ==
    IF fields = {} THEN {DefaultBlock(IdPool[3])}
    ELSE LET f == CHOOSE g \in fields : TRUE
         IN  {[b EXCEPT ![f] = v] : b \in BlocksSetting(fields \ {f}), v \in FieldValues[f]}

\* the blocks of a first call: at most MaxFields semantic fields hold a value
\* (inputs always does: its default is the empty list)
FirstBlocks ==
    UNION {BlocksSetting(fs) :
            fs \in {gs \in SUBSET SemanticFieldsOfBlock :
                        Cardinality(gs \cup {"inputs"}) <= MaxFields}}

Versions == {<<"1">>, <<"2">>, <<"1", "0">>}

\* a parent id that starts with a digit: "0A"
DigitId == <<"0">> \o IdPool[1]

\* parent_hashes: <<block id, hash>> items in insertion order
ParentHashes ==
    {<<>>,
     << <<IdPool[1], Some(<<"h">>)>> >>,
     << <<IdPool[1], None>>, <<IdPool[2], Some(<<"g">>)>> >>,
     << <<IdPool[2], Some(<<"g">>)>>, <<IdPool[1], None>> >>,
     << <<IdPool[1], Some(<<>>)>>, <<IdPool[2], Some(<<"g">>)>> >>,
     << <<IdPool[1], Some(<<"h">>)>>, <<IdPool[2], Some(<<"g">>)>> >>,
     << <<DigitId, Some(<<"h">>)>> >>}

FirstParentHashes ==
    {<< <<IdPool[1], None>>, <<IdPool[2], Some(<<"g">>)>> >>,
     << <<IdPool[1], Some(<<>>)>>, <<IdPool[2], Some(<<"g">>)>> >>,
     << <<DigitId, Some(<<"h">>)>> >>}

FirstCalls == {Args(b, <<"1">>, p) : b \in FirstBlocks, p \in FirstParentHashes}

\* the blocks that differ from `block` in at most one field
OneFieldEdits(block) ==
    {block} \cup
    UNION {{[block EXCEPT ![f] = v] :
                v \in FieldValues[f] \cup {DefaultBlock(block.id)[f]}} : f \in BlockFields}

\* the block under another id, its depends_on kept or changed
Renamed(block) ==
    {[b EXCEPT !.id = IdPool[1]] :
        b \in {block} \cup {[block EXCEPT !.depends_on = v] : v \in FieldValues["depends_on"]}}

\* the arguments of the second call: the block edited in one field or given
\* another id, or the same block under another capability version and other
\* parents
SecondCalls(args) ==
    {Args(b, args.capability_version, args.parent_hashes) :
        b \in OneFieldEdits(args.block) \cup Renamed(args.block)}
    \cup {Args(args.block, v, p) : v \in Versions, p \in ParentHashes}

NoArgs == Args(DefaultBlock(<<>>), <<>>, <<>>)

\* the locals of one call of calculate_cache_key: where it stands, its
\* hasher, semantic_str, the position in the loop over the parents, and the
\* exception it ended with
Locals(at, hash, semantic_str, k, error) ==
    [pc |-> at, hasher |-> hash, semantic_str |-> semantic_str, k |-> k, raised |-> error]

NotCalled == Locals("ready", <<>>, <<>>, 0, NoError)

NoCalls == <<>>

\* the arguments of the calls made from two threads: a plain block, a block
\* with a run payload, a block whose run payload holds a set; no parents or two
ThreadBlocks ==
    {DefaultBlock(IdPool[3]),
     [DefaultBlock(IdPool[3]) EXCEPT
        !.run = PyDict(<< <<PyStr(<<"b">>), PyInt(12)>>, <<PyStr(<<"a">>), PyInt(1)>> >>)],
     [DefaultBlock(IdPool[3]) EXCEPT
        !.run = PyDict(<< <<PyStr(<<"a">>), PyObject(<<"s", "e", "t">>)>> >>)]}

ThreadCalls ==
    {Args(b, <<"1">>, p) :
        b \in ThreadBlocks,
        p \in {<<>>, << <<IdPool[2], Some(<<"g">>)>>, <<IdPool[1], Some(<<"h">>)>> >>}}

\* the step lists of the build that runs beside the two calls: one that
\* builds, one with an unknown dependency, one with a cycle
ThreadStepLists ==
    {<<Step(IdPool[1], None, <<>>), Step(IdPool[2], Some(<<IdPool[1]>>), <<>>)>>,
     <<Step(IdPool[1], Some(<<UnknownId>>), <<>>)>>,
     <<Step(IdPool[1], Some(<<IdPool[2]>>), <<>>),
       Step(IdPool[2], None, <<IdPool[1] \o <<".", "x">> >>)>>}

----------------------------------------------------------------------------
(* The workflow engine: keys computed step by step over the built graph *)

\* the version string the capability registry gives for a step's engine
CapabilityVersion == <<"1">>

\* the block a step is rendered to
RenderedBlock(step) ==
    [DefaultBlock(step.id) EXCEPT !.engine = Some(<<"e">>),
                                  !.inputs = step.inputs,
                                  !.depends_on = step.depends_on]

DirectPredecessors(dag, id) == {e[1] : e \in {f \in dag.edges : f[2] = id}}

\* parent_hashes for the step `id`: the keys already computed for its direct
\* predecessors
ParentHashesOf(blocks, keys, dag, id) ==
    LET all == [i \in 1..Len(blocks) |-> <<blocks[i].id, Some(keys[i])>>]
        IsParent(item) == item[1] \in DirectPredecessors(dag, id)
    IN  SelectSeq(all, IsParent)

\* the keys calculate_cache_key may return for the arguments
CacheKeys(args) ==
    {KeyOf(Fed(args, semantic_dict)) :
        semantic_dict \in SemanticDicts(model_dump(args.block))}

\* the keys of the steps ord[1..k], computed in that order
RECURSIVE RunKeys(_, _, _, _)
RunKeys(blocks, dag, ord, k) ==
    IF k = 0 THEN {[i \in 1..Len(blocks) |-> <<>>]}
    ELSE LET i == CHOOSE j \in 1..Len(blocks) : blocks[j].id = ord[k]
         IN  UNION {{[keys EXCEPT ![i] = key] :
                        key \in CacheKeys(Args(blocks[i], CapabilityVersion,
                                               ParentHashesOf(blocks, keys, dag, ord[k])))} :
                    keys \in RunKeys(blocks, dag, ord, k - 1)}

NoRun == [blocks |-> <<>>, keys |-> <<>>]

\* the blocks that differ from `block` in one semantic field and give the same graph
SemanticEdits(block) ==
    {[block EXCEPT !.engine = Some(<<"f">>)],
     [block EXCEPT !.connection = Some(<<"c">>)],
     [block EXCEPT !.run = PyDict(<< <<PyStr(<<"a">>), PyStr(<<"1">>)>> >>)],
     [block EXCEPT !.content = Some(<<"q">>)],
     [block EXCEPT !.inputs = Append(@, UnknownId \o <<".", "x">>)],
     [block EXCEPT !.outputs = PyList(<<PyStr(<<"o">>)>>)],
     [block EXCEPT !.if_condition = Some(<<"t">>)]}

\* the step lists of the workflows run: depends_on over the ids of the pool,
\* inputs that name an output of a step of the pool or of an unknown step
RunInputStrs == {p \o <<".", "x">> : p \in PoolIds \cup {UnknownId}}

RunStepsWithRefs(id, r) ==
    UNION {StepsOver(id,
                     IF d = 0 THEN {None} ELSE {Some(l) : l \in SeqsOfLen(PoolIds, d)},
                     SeqsOfLen(RunInputStrs, r - d)) : d \in 0..r}

RunAllocations(n) == {a \in [1..n -> 0..MaxRunRefs] : SumTo(a, n) <= MaxRunRefs}

RECURSIVE RunStepLists(_, _)
RunStepLists(a, k) ==
    IF k > Len(a) THEN {<<>>}
    ELSE Prepend(RunStepsWithRefs(IdPool[k], a[k]), RunStepLists(a, k + 1))

----------------------------------------------------------------------------
(* No RunContext exists and safe_serialize is not called *)

NoCall == [at |-> "none"]

NotSerialized == <<"not_serialized">>

NoContexts == heap = <<>> /\ contexts = <<>> /\ made = <<>> /\ call = NoCall

NotSerializing == data = PyNone /\ serialized = NotSerialized

NotQuoted == <<"not_quoted">>

NotQuoting == value = PyNone /\ quoted = NotQuoted

NoSecrets == raw_secrets = None /\ coros = <<>> /\ backend_calls = 0

NoLookup == [name |-> <<>>, at |-> "none", returned |-> <<>>]

NoRegistry == plugins = <<>> /\ tool_schemas = None /\ tool_map = None /\ lookup = NoLookup

----------------------------------------------------------------------------
(* The run: one call of build_dependency_graph, then the caller's ordering *)

Init ==
    /\ \E n \in 1..MaxSteps : \E a \in RefAllocations(n) : \E empty \in {None, Some(<<>>)} :
            steps \in StepListsWith(a, 1, empty)
    /\ pc = "start"
    /\ result = NoResult
    /\ order = <<>>
    /\ args1 = NoArgs /\ args2 = NoArgs
    /\ hasher = <<>>
    /\ key1 = <<>> /\ key2 = <<>>
    /\ raised = NoError
    /\ run1 = NoRun /\ run2 = NoRun
    /\ calls = NoCalls
    /\ NoContexts
    /\ NotSerializing
    /\ NotQuoting
    /\ NoSecrets
    /\ NoRegistry

\* the call build_dependency_graph(steps)
Build ==
    /\ pc = "start"
    /\ result' \in BuildOutcomes(steps)
    /\ pc' = "built"
    /\ UNCHANGED <<steps, order>>
    /\ UNCHANGED keyVars
    /\ UNCHANGED runVars
    /\ UNCHANGED threadVars
    /\ UNCHANGED otherVars

\* the caller orders the steps of the returned graph topologically
TopologicalSort ==
    /\ pc = "built"
    /\ result.kind = "ok"
    /\ order' \in TopologicalOrders(result.dag)
    /\ pc' = "sorted"
    /\ UNCHANGED <<steps, result>>
    /\ UNCHANGED keyVars
    /\ UNCHANGED runVars
    /\ UNCHANGED threadVars
    /\ UNCHANGED otherVars

Next == Build \/ TopologicalSort

Spec == Init /\ [][Next]_vars

----------------------------------------------------------------------------
(* Two calls of calculate_cache_key in one process *)

InitKey ==
    /\ steps = <<>>
    /\ pc = "idle"
    /\ result = NoResult
    /\ order = <<>>
    /\ args1 \in FirstCalls
    /\ args2 = NoArgs
    /\ hasher = <<>>
    /\ key1 = <<>> /\ key2 = <<>>
    /\ raised = NoError
    /\ run1 = NoRun /\ run2 = NoRun
    /\ calls = NoCalls
    /\ NoContexts
    /\ NotSerializing
    /\ NotQuoting
    /\ NoSecrets
    /\ NoRegistry

\* the call calculate_cache_key(args1...)
FirstCall ==
    /\ pc = "idle"
    /\ \E semantic_dict \in SemanticDicts(model_dump(args1.block)) :
            \E outcome \in {CallOutcome(args1, semantic_dict)} :
                /\ hasher' = outcome.hasher
                /\ key1' = outcome.key
                /\ raised' = outcome.raised
    /\ pc' = "first"
    /\ UNCHANGED <<args1, args2, key2>>
    /\ UNCHANGED <<steps, result, order>>
    /\ UNCHANGED runVars
    /\ UNCHANGED threadVars
    /\ UNCHANGED otherVars

\* a later call calculate_cache_key(args2...)
SecondCall ==
    /\ pc = "first"
    /\ \E args \in SecondCalls(args1) :
            \E semantic_dict \in SemanticDicts(model_dump(args.block)) :
                \E outcome \in {CallOutcome(args, semantic_dict)} :
                    /\ args2' = args
                    /\ hasher' = outcome.hasher
                    /\ key2' = outcome.key
                    /\ raised' = outcome.raised
    /\ pc' = "second"
    /\ UNCHANGED <<args1, key1>>
    /\ UNCHANGED <<steps, result, order>>
    /\ UNCHANGED runVars
    /\ UNCHANGED threadVars
    /\ UNCHANGED otherVars

NextKey == FirstCall \/ SecondCall

SpecKey == InitKey /\ [][NextKey]_vars

----------------------------------------------------------------------------
(* Two runs of a workflow: graph, order, keys; then one block edited and the
   keys computed again *)

InitRun ==
    /\ \E n \in 1..MaxSteps : \E a \in RunAllocations(n) : steps \in RunStepLists(a, 1)
    /\ pc = "start"
    /\ result = NoResult
    /\ order = <<>>
    /\ args1 = NoArgs /\ args2 = NoArgs
    /\ hasher = <<>>
    /\ key1 = <<>> /\ key2 = <<>>
    /\ raised = NoError
    /\ run1 = NoRun /\ run2 = NoRun
    /\ calls = NoCalls
    /\ NoContexts
    /\ NotSerializing
    /\ NotQuoting
    /\ NoSecrets
    /\ NoRegistry

\* calculate_cache_key for each step in `order`, parents' keys fed forward
FirstRun ==
    /\ pc = "sorted"
    /\ LET blocks == [i \in 1..Len(steps) |-> RenderedBlock(steps[i])]
       IN  \E keys \in RunKeys(blocks, result.dag, order, Len(order)) :
                run1' = [blocks |-> blocks, keys |-> keys]
    /\ pc' = "keyed"
    /\ UNCHANGED <<steps, result, order, keyVars, run2, calls, otherVars>>

\* the same workflow with one semantic field of one step changed
SecondRun ==
    /\ pc = "keyed"
    /\ \E x \in 1..Len(steps) : \E edited \in SemanticEdits(run1.blocks[x]) :
            LET blocks == [run1.blocks EXCEPT ![x] = edited]
            IN  \E keys \in RunKeys(blocks, result.dag, order, Len(order)) :
                    run2' = [blocks |-> blocks, keys |-> keys]
    /\ pc' = "rekeyed"
    /\ UNCHANGED <<steps, result, order, keyVars, run1, calls, otherVars>>

NextRun == Build \/ TopologicalSort \/ FirstRun \/ SecondRun

SpecRun == InitRun /\ [][NextRun]_vars

----------------------------------------------------------------------------
(* Two threads inside calculate_cache_key, statement by statement, and a
   third one that calls build_dependency_graph *)

InitThreads ==
    /\ steps \in ThreadStepLists
    /\ pc = "start"
    /\ result = NoResult
    /\ order = <<>>
    /\ args1 \in ThreadCalls /\ args2 \in ThreadCalls
    /\ hasher = <<>>
    /\ key1 = <<>> /\ key2 = <<>>
    /\ raised = NoError
    /\ run1 = NoRun /\ run2 = NoRun
    /\ calls = <<NotCalled, NotCalled>>
    /\ NoContexts
    /\ NotSerializing
    /\ NotQuoting
    /\ NoSecrets
    /\ NoRegistry

ArgsOf(t) == IF t = 1 THEN args1 ELSE args2

\* what a statement of thread t leaves alone
ThreadFrame ==
    UNCHANGED <<steps, pc, result, order, args1, args2, raised, run1, run2, otherVars>>

\* line 85: hasher = hashlib.sha256()
NewHash(t) ==
    /\ calls[t].pc = "ready"
    /\ calls' = [calls EXCEPT ![t] = Locals("hashing", NewHasher, <<>>, 0, NoError)]
    /\ hasher' = calls'[t].hasher
    /\ UNCHANGED <<key1, key2>>
    /\ ThreadFrame

\* lines 99-105: the dump, semantic_dict and json.dumps, which may raise
Dump(t) ==
    /\ calls[t].pc = "hashing"
    /\ \E semantic_dict \in SemanticDicts(model_dump(ArgsOf(t).block)) :
            LET unsupported == UnsupportedTypes(semantic_dict)
            IN  calls' = [calls EXCEPT ![t] =
                    IF Len(unsupported) > 0
                    THEN [@ EXCEPT !.pc = "raised",
                                   !.raised = TypeErrorNotSerializable(unsupported[1])]
                    ELSE [@ EXCEPT !.pc = "dumped",
                                   !.semantic_str = json_dumps(semantic_dict)]]
    /\ UNCHANGED <<hasher, key1, key2>>
    /\ ThreadFrame

\* line 106: hasher.update(semantic_str.encode("utf-8"))
FeedJson(t) ==
    /\ calls[t].pc = "dumped"
    /\ calls' = [calls EXCEPT ![t] =
            [@ EXCEPT !.pc = "fed_json", !.hasher = Update(@, calls[t].semantic_str)]]
    /\ hasher' = calls'[t].hasher
    /\ UNCHANGED <<key1, key2>>
    /\ ThreadFrame

\* line 109: hasher.update(capability_version.encode("utf-8"))
FeedVersion(t) ==
    /\ calls[t].pc = "fed_json"
    /\ calls' = [calls EXCEPT ![t] =
            [@ EXCEPT !.pc = "in_parents", !.k = 1,
                      !.hasher = Update(@, ArgsOf(t).capability_version)]]
    /\ hasher' = calls'[t].hasher
    /\ UNCHANGED <<key1, key2>>
    /\ ThreadFrame

\* lines 112-113: one turn of the loop over sorted(parent_hashes.items())
FeedParent(t) ==
    /\ calls[t].pc = "in_parents"
    /\ LET items == SortedItemsOfParents(ArgsOf(t).parent_hashes)
           k == calls[t].k
       IN  /\ k <= Len(items)
           /\ calls' = [calls EXCEPT ![t] =
                    [@ EXCEPT !.k = k + 1,
                              !.hasher = Update(@, ParentEntry(items[k][1], items[k][2]))]]
    /\ hasher' = calls'[t].hasher
    /\ UNCHANGED <<key1, key2>>
    /\ ThreadFrame

\* line 115: return f"sha256:{hasher.hexdigest()}"
Return(t) ==
    /\ calls[t].pc = "in_parents"
    /\ calls[t].k > Len(ArgsOf(t).parent_hashes)
    /\ calls' = [calls EXCEPT ![t] = [@ EXCEPT !.pc = "returned"]]
    /\ IF t = 1
       THEN key1' = KeyOf(calls[t].hasher) /\ UNCHANGED key2
       ELSE key2' = KeyOf(calls[t].hasher) /\ UNCHANGED key1
    /\ UNCHANGED hasher
    /\ ThreadFrame

CallStep(t) ==
    \/ NewHash(t)
    \/ Dump(t)
    \/ FeedJson(t)
    \/ FeedVersion(t)
    \/ FeedParent(t)
    \/ Return(t)

NextThreads == Build \/ CallStep(1) \/ CallStep(2)

SpecThreads == InitThreads /\ [][NextThreads]_vars

----------------------------------------------------------------------------
(* What a step list declares, read off the steps themselves *)

StepIds(ss) == {ss[i].id : i \in 1..Len(ss)}

\* the ids listed in depends_on
DeclaredExplicit(step) == Range(step.depends_on.val)

\* the text before the first "." of an inputs entry that holds one
ProducerPrefix(s) ==
    CHOOSE p \in {SubSeq(s, 1, i - 1) : i \in 1..Len(s)} :
        /\ Len(p) < Len(s) /\ s[Len(p) + 1] = "."
        /\ \A j \in 1..Len(p) : p[j] # "."

\* an inputs entry of `step` that names the output of another step of the list
NamesProducer(ss, step, s) ==
    /\ \E i \in 1..Len(s) : s[i] = "."
    /\ ProducerPrefix(s) \in StepIds(ss)
    /\ ProducerPrefix(s) # step.id

DeclaredImplicit(ss, step) ==
    {ProducerPrefix(s) : s \in {e \in Range(step.inputs) : NamesProducer(ss, step, e)}}

DeclaredDeps(ss, step) == DeclaredExplicit(step) \cup DeclaredImplicit(ss, step)

DeclaredEdges(ss) ==
    UNION {{<<d, ss[i].id>> : d \in DeclaredDeps(ss, ss[i])} : i \in 1..Len(ss)}

AllDependsOnKnown(ss) ==
    \A i \in 1..Len(ss) : DeclaredExplicit(ss[i]) \subseteq StepIds(ss)

DeclaredCyclic(ss) ==
    \E n \in StepIds(ss) : n \in Descendants(DeclaredEdges(ss), n)

\* the call has ended and its outcome is in `result` (ordering keeps it)
Called == pc = "built"

----------------------------------------------------------------------------
(* Claims *)

\* C1: for a step list whose depends_on ids all resolve and whose explicit
\* and implicit dependencies form no cycle, the call succeeds and in the
\* execution order every step comes strictly after every step it depends on,
\* explicitly (depends_on) or implicitly (inputs prefix).
C1_OrderRespectsDependencies ==
    /\ (Called /\ AllDependsOnKnown(steps) /\ ~DeclaredCyclic(steps))
            => result.kind = "ok"
    /\ pc = "sorted" =>
            /\ StepIds(steps) \subseteq Range(order)
            /\ \A i \in 1..Len(steps) : \A d \in DeclaredDeps(steps, steps[i]) :
                    Position(order, d) < Position(order, steps[i].id)

\* a run ordered three steps, one with an explicit and one with an implicit
\* dependency, the explicit one on a step declared later
C1_Witness ==
    /\ pc = "sorted"
    /\ Len(order) = 3
    /\ \E i \in 1..Len(steps) : \E d \in DeclaredExplicit(steps[i]) :
            \E j \in (i + 1)..Len(steps) : steps[j].id = d
    /\ \E i \in 1..Len(steps) : DeclaredImplicit(steps, steps[i]) # {}

\* C2: a returned graph is acyclic; a step list whose depends_on ids are all
\* known and whose explicit and implicit edges contain a cycle makes the call
\* fail with the circular-dependency error, and the reported cycle is a closed
\* chain of edges between ids of the input.
C2_CyclesRejected ==
    /\ (Called /\ result.kind = "ok") => is_directed_acyclic_graph(result.dag)
    /\ (Called /\ AllDependsOnKnown(steps) /\ DeclaredCyclic(steps)) =>
            /\ result.kind = "circular_dependency"
            /\ result.dag = EmptyDag
            /\ Len(result.cycle) >= 1
            /\ \A k \in 1..Len(result.cycle) :
                    /\ result.cycle[k][1] \in StepIds(steps)
                    /\ result.cycle[k][2] \in StepIds(steps)
                    /\ result.cycle[k][2] = result.cycle[(k % Len(result.cycle)) + 1][1]

\* the call failed on a cycle of three steps that runs through an inputs entry
C2_Witness ==
    /\ pc = "built"
    /\ result.kind = "circular_dependency"
    /\ Len(result.cycle) = 3
    /\ \E k \in 1..3 : \E i \in 1..Len(steps) :
            /\ steps[i].id = result.cycle[k][2]
            /\ result.cycle[k][1] \in DeclaredImplicit(steps, steps[i])
            /\ result.cycle[k][1] \notin DeclaredExplicit(steps[i])

\* C3: when some depends_on holds an id that no step of the list carries, the
\* call fails with the invalid-dependency error, which names a step of the
\* list and an id of its depends_on that no step carries; no graph is returned.
C3_UnknownDependencyRejected ==
    (Called /\ ~AllDependsOnKnown(steps)) =>
        /\ result.kind = "invalid_dependency"
        /\ result.dag = EmptyDag
        /\ result.dep \notin StepIds(steps)
        /\ \E i \in 1..Len(steps) :
                /\ steps[i].id = result.step
                /\ result.dep \in DeclaredExplicit(steps[i])

\* the call failed on the second id of a depends_on list, declared on a step
\* whose inputs name a producer
C3_Witness ==
    /\ pc = "built"
    /\ result.kind = "invalid_dependency"
    /\ \E i \in 1..Len(steps) :
            /\ steps[i].id = result.step
            /\ Len(steps[i].depends_on.val) = 2
            /\ steps[i].depends_on.val[1] \in StepIds(steps)
            /\ steps[i].depends_on.val[2] = result.dep
            /\ DeclaredImplicit(steps, steps[i]) # {}

\* C4: on success the edges of the returned graph are exactly (d, s) for
\* every id d in step s's depends_on and (p, s) for every inputs entry of s
\* that holds ".", whose text p before the first "." is the id of a step of
\* the list other than s.
C4_EdgesExact ==
    (Called /\ result.kind = "ok") => result.dag.edges = DeclaredEdges(steps)

\* a returned graph with an explicit edge, an implicit edge read off an entry
\* with two separators, and a step whose inputs entry adds no edge
C4_Witness ==
    /\ pc = "built"
    /\ result.kind = "ok"
    /\ \E i \in 1..Len(steps) : DeclaredExplicit(steps[i]) # {}
    /\ \E i \in 1..Len(steps) : \E s \in Range(steps[i].inputs) :
            /\ NamesProducer(steps, steps[i], s)
            /\ Cardinality({k \in 1..Len(s) : s[k] = "."}) = 2
    /\ \E i \in 1..Len(steps) : \E s \in Range(steps[i].inputs) :
            ~NamesProducer(steps, steps[i], s)

\* the list without entry j of the inputs of step i
WithoutInput(ss, i, j) ==
    [ss EXCEPT ![i].inputs = SubSeq(@, 1, j - 1) \o SubSeq(@, j + 1, Len(@))]

\* C5: an inputs entry without ".", or whose prefix before the first "." is
\* not the id of a step of the list, or is the step's own id, is ignored: the
\* call on the list with the entry ends as the call on the list without it,
\* with the same success or error and the same edges.
C5_UnresolvedInputsIgnored ==
    Called =>
        \A i \in 1..Len(steps) : \A j \in 1..Len(steps[i].inputs) :
            ~NamesProducer(steps, steps[i], steps[i].inputs[j]) =>
                \A o \in BuildOutcomes(WithoutInput(steps, i, j)) :
                    /\ o.kind = result.kind
                    /\ o.dag.edges = result.dag.edges
                    /\ o.step = result.step
                    /\ o.dep = result.dep

\* a returned graph with an edge, built from a list in which one step holds
\* an entry prefixed by its own id, one an entry with an unknown prefix and
\* one an entry without separator
C5_Witness ==
    /\ pc = "built"
    /\ result.kind = "ok"
    /\ \E i \in 1..Len(steps) : \E s \in Range(steps[i].inputs) :
            HasSeparator(s) /\ ProducerPrefix(s) = steps[i].id
    /\ \E i \in 1..Len(steps) : \E s \in Range(steps[i].inputs) :
            HasSeparator(s) /\ ProducerPrefix(s) \notin StepIds(steps)
    /\ \E i \in 1..Len(steps) : \E s \in Range(steps[i].inputs) : ~HasSeparator(s)

\* the order that places, among the steps whose declared dependencies are all
\* placed, the one declared first
RECURSIVE DeclarationOrder(_, _)
DeclarationOrder(ss, placed) ==
    LET ready == {i \in 1..Len(ss) :
                    /\ ss[i].id \notin Range(placed)
                    /\ DeclaredDeps(ss, ss[i]) \subseteq Range(placed)}
    IN  IF ready = {} THEN placed
        ELSE DeclarationOrder(ss,
                Append(placed, ss[CHOOSE i \in ready : \A k \in ready : i <= k].id))

\* C6 as stated: the execution order is the one that breaks ties by
\* declaration position.
C6_OrderByDeclaration ==
    pc = "sorted" => order = DeclarationOrder(steps, <<>>)

\* C6 as amended: the code returns the graph and fixes no tie-break; the
\* order is one of the topological orders of the returned graph, the order by
\* declaration position is always among them, and two steps with no path
\* between them may come either way round.
C6_OrderAnyTopological ==
    /\ pc = "sorted" => order \in TopologicalOrders(GraphOf(steps).dag)
    /\ (Called /\ result.kind = "ok") =>
            LET orders == TopologicalOrders(result.dag)
            IN  /\ DeclarationOrder(steps, <<>>) \in orders
                /\ \A u, v \in NodeSet(result.dag) :
                        (u # v /\ v \notin Descendants(result.dag.edges, u)) =>
                            \E o \in orders : Position(o, v) < Position(o, u)

\* the scenario A, B with depends_on [A], C with inputs ["A.x"], ordered A, C, B
C6_Witness ==
    /\ pc = "sorted"
    /\ Len(steps) = 3
    /\ steps[2].depends_on.val = <<IdPool[1]>>
    /\ steps[3].inputs = <<IdPool[1] \o <<".", "x">>>>
    /\ result.dag.edges = {<<IdPool[1], IdPool[2]>>, <<IdPool[1], IdPool[3]>>}
    /\ order = <<IdPool[1], IdPool[3], IdPool[2]>>


----------------------------------------------------------------------------
(* Equality of Python values, and of the arguments of two calls *)

\* v == w in Python: a dict compares by its mapping, whatever the insertion order
RECURSIVE PyEqual(_, _)
PyEqual(v, w) ==
    IF v[1] # w[1] THEN FALSE
    ELSE CASE v[1] = "none" -> TRUE
           [] v[1] = "str"  -> v[2] = w[2]
           [] v[1] = "int"  -> v[2] = w[2]
           [] v[1] = "object" -> v[2] = w[2]
           [] v[1] = "list" ->
                /\ Len(v[2]) = Len(w[2])
                /\ \A i \in 1..Len(v[2]) : PyEqual(v[2][i], w[2][i])
           [] v[1] = "dict" ->
                /\ Len(v[2]) = Len(w[2])
                /\ \A i \in 1..Len(v[2]) : \E j \in 1..Len(w[2]) :
                        /\ v[2][i][1] = w[2][j][1]
                        /\ PyEqual(v[2][i][2], w[2][j][2])

FieldEqual(b1, b2, f) ==
    IF f \in {"run", "outputs"} THEN PyEqual(b1[f], b2[f]) ELSE b1[f] = b2[f]

BlocksEqual(b1, b2) == \A f \in BlockFields \cup {"id"} : FieldEqual(b1, b2, f)

\* the two blocks differ in field f and in no other field
DiffersOnlyIn(b1, b2, f) ==
    /\ ~FieldEqual(b1, b2, f)
    /\ \A g \in (BlockFields \cup {"id"}) \ {f} : FieldEqual(b1, b2, g)

SameVersionAndParents ==
    /\ args1.capability_version = args2.capability_version
    /\ Range(args1.parent_hashes) = Range(args2.parent_hashes)

ArgsEqual == BlocksEqual(args1.block, args2.block) /\ SameVersionAndParents

\* the value of field f as model_dump gives it
FieldPyValue(b, f) ==
    CASE f \in {"run", "outputs"} -> b[f]
      [] f = "inputs" -> PyStrList(b.inputs)
      [] f = "depends_on" -> (IF b.depends_on.some THEN PyStrList(b.depends_on.val) ELSE PyNone)
      [] OTHER -> PyOptStr(b[f])

\* both calls have returned a key
BothCalled == pc = "second" /\ Len(key1) > 0 /\ Len(key2) > 0

----------------------------------------------------------------------------
(* C7: calculate_cache_key is deterministic: a second call with equal block
   content, equal capability_version and an equal parent_hashes mapping
   returns the key of the first call, whatever was hashed before, in whatever
   order the set of semantic fields is iterated and in whatever order the
   run payload and the parents were inserted *)
C7_Deterministic == (BothCalled /\ ArgsEqual) => key2 = key1

\* two calls with equal arguments whose run payloads were inserted in
\* different orders, with several semantic fields to iterate over
C7_Witness ==
    /\ BothCalled
    /\ ArgsEqual
    /\ args1.block.run # args2.block.run
    /\ Cardinality(PresentFields(model_dump(args2.block))) >= 2

----------------------------------------------------------------------------
\* the step whose block the second run changed
Changed == CHOOSE x \in 1..Len(steps) : run2.blocks[x] # run1.blocks[x]

\* the field of that block that changed
ChangedField ==
    CHOOSE f \in SemanticFieldsOfBlock :
        DiffersOnlyIn(run1.blocks[Changed], run2.blocks[Changed], f)

\* the steps whose key the change has to reach: the changed step and its descendants
Invalidated ==
    {Changed} \cup
    {i \in 1..Len(steps) : steps[i].id \in Descendants(result.dag.edges, steps[Changed].id)}

BothRun == pc = "rekeyed"

(* C8: with keys computed in topological order of the built graph and each
   step's parent_hashes holding the keys of its direct predecessors, changing
   a semantic field of one step X (graph unchanged) changes the key of X and
   of every descendant of X and leaves every other key unchanged *)
C8_InvalidationPropagates ==
    BothRun =>
        \A i \in 1..Len(steps) :
            IF i \in Invalidated
            THEN run2.keys[i] # run1.keys[i]
            ELSE run2.keys[i] = run1.keys[i]

\* a chain X -> Y -> Z whose head changed its condition and kept every key
C8_Witness ==
    /\ BothRun
    /\ ChangedField = "if_condition"
    /\ Cardinality(Invalidated) = 3
    /\ \E i \in 1..Len(steps) :
            /\ DirectPredecessors(result.dag, steps[i].id) # {}
            /\ steps[Changed].id \notin DirectPredecessors(result.dag, steps[i].id)
    /\ run2.keys = run1.keys

\* what does hold: a change of a field other than the condition reaches the
\* step and its descendants, and whatever the change no other key moves
C8_HashedFieldInvalidates ==
    BothRun =>
        \A i \in 1..Len(steps) :
            /\ (i \in Invalidated /\ ChangedField # "if_condition")
                    => run2.keys[i] # run1.keys[i]
            /\ i \notin Invalidated => run2.keys[i] = run1.keys[i]

\* a change of a hashed field with a descendant two edges away and a step
\* that is no descendant
C8_HashedWitness ==
    /\ BothRun
    /\ ChangedField # "if_condition"
    /\ Cardinality(Invalidated) = 2
    /\ Len(steps) = 3
    /\ run2.keys # run1.keys

----------------------------------------------------------------------------
(* C9: for fixed capability_version and parent_hashes, two blocks that differ
   in the value of one of engine, connection, run, content, inputs or outputs
   get different cache keys *)
C9_SemanticValueChangesKey ==
    (/\ BothCalled
     /\ SameVersionAndParents
     /\ \E f \in {"engine", "connection", "run", "content", "inputs", "outputs"} :
            DiffersOnlyIn(args1.block, args2.block, f))
    => key2 # key1

\* two run payloads that differ as Python values and get one key
C9_Witness ==
    /\ BothCalled
    /\ SameVersionAndParents
    /\ DiffersOnlyIn(args1.block, args2.block, "run")
    /\ key2 = key1

\* what does hold: the key differs whenever the JSON text of the changed
\* field differs
C9_SerializedDifferenceChangesKey ==
    (/\ BothCalled
     /\ SameVersionAndParents
     /\ \E f \in {"engine", "connection", "run", "content", "inputs", "outputs"} :
            /\ DiffersOnlyIn(args1.block, args2.block, f)
            /\ json_dumps(FieldPyValue(args1.block, f))
                 # json_dumps(FieldPyValue(args2.block, f)))
    => key2 # key1

----------------------------------------------------------------------------
(* C10: the condition expression is part of what is hashed: for fixed
   capability_version and parent_hashes, two blocks that differ only in
   if_condition get different cache keys *)
C10_ConditionChangesKey ==
    (/\ BothCalled
     /\ SameVersionAndParents
     /\ DiffersOnlyIn(args1.block, args2.block, "if_condition"))
    => key2 # key1

\* two blocks with different conditions and one key
C10_Witness ==
    /\ BothCalled
    /\ SameVersionAndParents
    /\ DiffersOnlyIn(args1.block, args2.block, "if_condition")
    /\ args1.block.if_condition.some /\ args2.block.if_condition.some
    /\ key2 = key1

----------------------------------------------------------------------------
(* C11: descriptive fields do not influence the key: two blocks that agree on
   every semantic field and differ only in name, or only in a free-text
   description carried as an extra field, get the same cache key for the same
   capability_version and parent_hashes *)
C11_DescriptiveFieldsIgnored ==
    (/\ BothCalled
     /\ SameVersionAndParents
     /\ \E f \in {"name", "description"} : DiffersOnlyIn(args1.block, args2.block, f))
    => key2 = key1

\* a block with a run payload or another semantic value, called again with a
\* description added
C11_Witness ==
    /\ BothCalled
    /\ SameVersionAndParents
    /\ DiffersOnlyIn(args1.block, args2.block, "description")
    /\ Cardinality(PresentFields(model_dump(args1.block))) >= 2

----------------------------------------------------------------------------
\* an empty list or an empty mapping
IsEmptyValue(v) == v = PyList(<<>>) \/ v = PyDict(<<>>)

\* the two blocks differ only in f, which one of them leaves absent and the
\* other sets to an empty value
EmptyAgainstAbsent(b1, b2, f) ==
    /\ DiffersOnlyIn(b1, b2, f)
    /\ \/ b1[f] = PyNone /\ IsEmptyValue(b2[f])
       \/ b2[f] = PyNone /\ IsEmptyValue(b1[f])

(* C12: a semantic field whose value is absent or empty is omitted from the
   canonical representation, so a block with an empty value for an optional
   semantic field (outputs=[], outputs={} or run={}) gets the same cache key
   as the block where that field is absent *)
C12_EmptyValueOmitted ==
    (/\ BothCalled
     /\ SameVersionAndParents
     /\ \E f \in {"run", "outputs"} : EmptyAgainstAbsent(args1.block, args2.block, f))
    => key2 = key1

\* outputs=[] against no outputs: two keys
C12_Witness ==
    /\ BothCalled
    /\ SameVersionAndParents
    /\ EmptyAgainstAbsent(args1.block, args2.block, "outputs")
    /\ PyList(<<>>) \in {args1.block.outputs, args2.block.outputs}
    /\ key2 # key1

\* what does hold: only None is left out, every empty value is hashed
C12_OnlyNoneOmitted ==
    (/\ BothCalled
     /\ SameVersionAndParents
     /\ \E f \in {"run", "outputs"} : EmptyAgainstAbsent(args1.block, args2.block, f))
    => key2 # key1

----------------------------------------------------------------------------
SameParents == Range(args1.parent_hashes) = Range(args2.parent_hashes)

SameBlock == BlocksEqual(args1.block, args2.block)

(* C13: for the same block and the same parent_hashes, two different
   capability_version strings give different cache keys *)
C13_VersionChangesKey ==
    (/\ BothCalled
     /\ SameBlock
     /\ SameParents
     /\ args1.capability_version # args2.capability_version)
    => key2 # key1

\* versions "1" and "10" over a parent whose id starts with "0"
C13_Witness ==
    /\ BothCalled
    /\ SameBlock
    /\ SameParents
    /\ args1.capability_version = <<"1">>
    /\ args2.capability_version = <<"1", "0">>
    /\ Len(args1.parent_hashes) > 0
    /\ args1.parent_hashes[1][1] = DigitId

----------------------------------------------------------------------------
ParentIds(parent_hashes) == {parent_hashes[i][1] : i \in 1..Len(parent_hashes)}

\* parent_hashes[block_id]
ParentValue(parent_hashes, block_id) ==
    parent_hashes[CHOOSE i \in 1..Len(parent_hashes) : parent_hashes[i][1] = block_id][2]

\* the entries of the two mappings whose values differ, the ids being the same
ChangedEntries(p1, p2) ==
    {id \in ParentIds(p1) : ParentValue(p1, id) # ParentValue(p2, id)}

SingleEntryChanged ==
    /\ ParentIds(args1.parent_hashes) = ParentIds(args2.parent_hashes)
    /\ Cardinality(ChangedEntries(args1.parent_hashes, args2.parent_hashes)) = 1

SameVersion == args1.capability_version = args2.capability_version

(* C14: for the same block and capability_version, changing the value of any
   single entry of parent_hashes (all other entries equal) changes the
   returned cache key *)
C14_ParentValueChangesKey ==
    (BothCalled /\ SameBlock /\ SameVersion /\ SingleEntryChanged) => key2 # key1

(* C14 as amended: the key changes when the old and the new value are hashed
   as different text; None and the empty string are both hashed as '' *)
C14_ParentHashChangesKey ==
    (/\ BothCalled /\ SameBlock /\ SameVersion /\ SingleEntryChanged
     /\ \E id \in ChangedEntries(args1.parent_hashes, args2.parent_hashes) :
            HashOrEmpty(ParentValue(args1.parent_hashes, id))
                # HashOrEmpty(ParentValue(args2.parent_hashes, id)))
    => key2 # key1

\* one of two entries gets a hash, the other entry stays
C14_Witness ==
    /\ BothCalled /\ SameBlock /\ SameVersion /\ SingleEntryChanged
    /\ Len(args1.parent_hashes) = 2
    /\ \E id \in ChangedEntries(args1.parent_hashes, args2.parent_hashes) :
            ParentValue(args2.parent_hashes, id) = Some(<<"h">>)

----------------------------------------------------------------------------
(* C15: for a fixed block, any two calls whose (capability_version,
   parent_hashes) arguments differ in any way, both changing at once and
   parent ids changing included, feed different bytes to the digest and
   return different keys *)
C15_AnyArgumentChangeChangesKey ==
    (BothCalled /\ SameBlock /\ ~(SameVersion /\ SameParents)) => key2 # key1

\* another version and another parent id, the same bytes: the version "1"
\* before the parent "0A" reads as the version "10" before the parent "A"
C15_Witness ==
    /\ BothCalled
    /\ SameBlock
    /\ ~SameVersion
    /\ ParentIds(args1.parent_hashes) # ParentIds(args2.parent_hashes)
    /\ hasher = SubSeq(key1, 8, Len(key1))
    /\ key2 = key1

----------------------------------------------------------------------------
\* the ids of a mapping in ascending order
AscendingIds(parent_hashes) ==
    CHOOSE s \in [1..Len(parent_hashes) -> ParentIds(parent_hashes)] :
        \A i, j \in 1..Len(parent_hashes) : i < j => StrLess(s[i], s[j])

\* the entries of a mapping written one after the other by ascending id
RECURSIVE EntriesFrom(_, _, _)
EntriesFrom(parent_hashes, ids, k) ==
    IF k > Len(ids) THEN <<>>
    ELSE ParentEntry(ids[k], ParentValue(parent_hashes, ids[k]))
         \o EntriesFrom(parent_hashes, ids, k + 1)

EntriesAscending(parent_hashes) ==
    EntriesFrom(parent_hashes, AscendingIds(parent_hashes), 1)

EndsWith(s, suffix) ==
    /\ Len(suffix) <= Len(s)
    /\ SubSeq(s, Len(s) - Len(suffix) + 1, Len(s)) = suffix

(* C16: the cache key does not depend on the insertion order of
   parent_hashes: the parent pairs are fed to the digest sorted by parent
   step id, so two mappings with the same entries in different order give
   the same key *)
C16_ParentOrderIrrelevant ==
    BothCalled =>
        /\ EndsWith(hasher, EntriesAscending(args2.parent_hashes))
        /\ (SameBlock /\ SameVersion /\ SameParents) => key2 = key1

\* the same two entries, inserted B then A in the second call
C16_Witness ==
    /\ BothCalled /\ SameBlock /\ SameVersion /\ SameParents
    /\ Len(args2.parent_hashes) = 2
    /\ args2.parent_hashes[1][1] = IdPool[2]
    /\ args1.parent_hashes[1][1] = IdPool[1]

----------------------------------------------------------------------------
\* the semantic payload of the block holds a value json.dumps cannot encode
HoldsUnsupported(block) ==
    Len(UnsupportedTypes(block.run)) > 0 \/ Len(UnsupportedTypes(block.outputs)) > 0

\* the text `part` occurs in the text s
Contains(s, part) ==
    \E i \in 1..(Len(s) - Len(part) + 1) : SubSeq(s, i, i + Len(part) - 1) = part

\* the arguments and the key of the call that ended last
LastArgs == IF pc = "second" THEN args2 ELSE args1

LastKey == IF pc = "second" THEN key2 ELSE key1

OneCalled == pc \in {"first", "second"}

(* C17: when a block's semantic payload holds a value that cannot be
   canonically serialized (an unsupported type inside run),
   calculate_cache_key fails with a SerializationError that names the
   offending field, and returns no key *)
C17_SerializationErrorNamesField ==
    (OneCalled /\ HoldsUnsupported(LastArgs.block)) =>
        /\ raised.type = "SerializationError"
        /\ Contains(raised.message, F_run)
        /\ Len(LastKey) = 0

(* C17 as amended: the call ends with the TypeError of json.dumps, whose
   message names the type of the value and not the field; no key is returned
   and nothing was fed to the hasher; a payload without such a value raises
   nothing *)
C17_TypeErrorPropagates ==
    OneCalled =>
        IF HoldsUnsupported(LastArgs.block)
        THEN /\ raised.type = "TypeError"
             /\ Contains(raised.message, <<"s", "e", "t">>)
             /\ ~Contains(raised.message, F_run)
             /\ Len(LastKey) = 0
             /\ Len(hasher) = 0
        ELSE raised = NoError /\ Len(LastKey) > 0

\* a first call that returned a key, then a call whose run holds a set
C17_Witness ==
    /\ pc = "second"
    /\ HoldsUnsupported(args2.block)
    /\ ~HoldsUnsupported(args1.block)
    /\ Len(key1) > 0
    /\ raised.type = "TypeError"

----------------------------------------------------------------------------
KeyOfThread(t) == IF t = 1 THEN key1 ELSE key2

\* a call that has ended did what a call alone on its arguments does
EndedAsAlone(t) ==
    /\ calls[t].pc = "returned" =>
            /\ KeyOfThread(t) \in CacheKeys(ArgsOf(t))
            /\ calls[t].raised = NoError
    /\ calls[t].pc = "raised" =>
            /\ Len(KeyOfThread(t)) = 0
            /\ HoldsUnsupported(ArgsOf(t).block)
            /\ calls[t].raised.type = "TypeError"
    /\ calls[t].pc \notin {"returned", "raised"} => Len(KeyOfThread(t)) = 0

(* C18: build_dependency_graph and calculate_cache_key have no side effects:
   no step of a call, successful or failing, changes the step list, a step's
   fields, the block or the parent_hashes mapping, and no state survives
   between calls: however the statements of two calls and a build are
   interleaved, each ends as it would alone on its inputs *)
C18_NoSideEffects ==
    /\ [][steps' = steps /\ args1' = args1 /\ args2' = args2]_vars
    /\ [](Len(calls) = 2 => EndedAsAlone(1) /\ EndedAsAlone(2))
    /\ [](pc = "built" => result \in BuildOutcomes(steps))

\* one call returned its key over two parents, the other raised on a set in
\* its payload, and the build failed on a cycle
C18_Witness ==
    /\ Len(calls) = 2
    /\ calls[1].pc = "returned"
    /\ Len(args1.parent_hashes) = 2
    /\ calls[2].pc = "raised"
    /\ pc = "built"
    /\ result.kind = "circular_dependency"

----------------------------------------------------------------------------
(* cx_kit.schemas.context: RunContext and RunContext.with_updates.  A dict
   is an object on the heap, named by its address; a RunContext holds the
   addresses of its `variables` and `connections` dicts. *)

\* most RunContext objects created
MaxContexts == 3

VariableNames == {"x", "y"}

VariableValues == {1, 2}

\* a Dict[str, Any]: a function from its keys to their values
EmptyDict == [name \in {} |-> 1]

Scopes == UNION {[names -> VariableValues] : names \in SUBSET VariableNames}

InitialScopes == {scope \in Scopes : \A name \in DOMAIN scope : scope[name] = 1}

\* the `new_variables` argument: None, {} or a dict
NewVariables ==
    {None} \cup {Some(scope) : scope \in {EmptyDict} \cup {d \in Scopes : \A name \in DOMAIN d : d[name] = 2}}

\* the `active_connection` argument: None or a ConnectionSpec
ActiveConnections == {None, Some("c1"), Some("c2")}

ContextFields ==
    {"run_id", "flow_id", "cx_home", "current_flow_path", "variables", "connections",
     "active_connection", "vfs", "secrets", "llm"}

\* RunContext(...): the object, its dicts at the given addresses
RunContext(variables, connections, active_connection) ==
    [run_id |-> "run", flow_id |-> "flow", cx_home |-> "home", current_flow_path |-> None,
     variables |-> variables, connections |-> connections,
     active_connection |-> active_connection,
     vfs |-> "vfs", secrets |-> "secrets", llm |-> "llm"]

\* `if new_variables:` is false of None and of {}
HasItems(new_variables) == new_variables.some /\ DOMAIN new_variables.val # {}

\* updated_vars is the receiver's own dict
dict_alias(h, address) == [heap |-> h, address |-> address]

\* self.variables.copy(): a new dict with the same items
dict_copy(h, address) == [heap |-> Append(h, h[address]), address |-> Len(h) + 1]

\* updated_vars.update(new_variables), in place
dict_update(h, address, other) ==
    [h EXCEPT ![address] =
        [name \in DOMAIN h[address] \cup DOMAIN other |->
            IF name \in DOMAIN other THEN other[name] ELSE h[address][name]]]

\* self.model_copy(update=update_dict): a shallow copy with the fields of
\* update_dict replaced
model_copy(self, update_dict) ==
    [f \in ContextFields |-> IF f \in DOMAIN update_dict THEN update_dict[f] ELSE self[f]]

\* self.with_updates(new_variables, active_connection): the heap after the
\* call and the object returned, self or a new RunContext
with_updates(h, self, new_variables, active_connection) ==
    LET copied == dict_copy(h, self.variables)
        updated == IF HasItems(new_variables)
                   THEN dict_update(copied.heap, copied.address, new_variables.val)
                   ELSE h
        keys == (IF HasItems(new_variables) THEN {"variables"} ELSE {})
                    \cup (IF active_connection.some THEN {"active_connection"} ELSE {})
        update_dict == [f \in keys |-> IF f = "variables" THEN copied.address
                                       ELSE active_connection]
    IN  IF keys = {}
        THEN [heap |-> updated, is_self |-> TRUE, context |-> self]
        ELSE [heap |-> updated, is_self |-> FALSE, context |-> model_copy(self, update_dict)]

\* what a RunContext holds: the items of its dicts and its active_connection
Held(h, context) ==
    [variables |-> h[context.variables],
     connections |-> h[context.connections],
     active_connection |-> context.active_connection]

\* a RunContext has been constructed over its two dicts
InitContext ==
    /\ steps = <<>>
    /\ pc = "idle"
    /\ result = NoResult
    /\ order = <<>>
    /\ args1 = NoArgs /\ args2 = NoArgs
    /\ hasher = <<>>
    /\ key1 = <<>> /\ key2 = <<>>
    /\ raised = NoError
    /\ run1 = NoRun /\ run2 = NoRun
    /\ calls = NoCalls
    /\ \E scope \in InitialScopes : heap = <<scope, EmptyDict>>
    /\ \E active_connection \in {None, Some("c1")} :
            contexts = <<RunContext(1, 2, active_connection)>>
    /\ made = <<Held(heap, contexts[1])>>
    /\ call = NoCall
    /\ NotSerializing
    /\ NotQuoting
    /\ NoSecrets
    /\ NoRegistry

\* a call of with_updates on any RunContext created so far
WithUpdates ==
    /\ \E i \in 1..Len(contexts) : \E new_variables \in NewVariables :
        \E active_connection \in ActiveConnections :
            \E outcome \in {with_updates(heap, contexts[i], new_variables, active_connection)} :
                /\ outcome.is_self \/ Len(contexts) < MaxContexts
                /\ heap' = outcome.heap
                /\ contexts' = IF outcome.is_self THEN contexts
                               ELSE Append(contexts, outcome.context)
                /\ made' = IF outcome.is_self THEN made
                           ELSE Append(made, Held(outcome.heap, outcome.context))
                /\ call' = [at |-> "returned", self |-> i,
                            new_variables |-> new_variables,
                            active_connection |-> active_connection,
                            returned |-> IF outcome.is_self THEN i ELSE Len(contexts) + 1,
                            before |-> Held(heap, contexts[i])]
    /\ UNCHANGED orchestrationVars
    /\ UNCHANGED <<serializeVars, templatingVars, secretsVars, registryVars>>

NextContext == WithUpdates

SpecContext == InitContext /\ [][NextContext]_vars

\* the fields a call of with_updates names
NamedFields(c) ==
    (IF c.new_variables.some THEN {"variables"} ELSE {})
        \cup (IF c.active_connection.some THEN {"active_connection"} ELSE {})

\* a field of a RunContext as a value: a dict by its items
FieldValue(h, context, f) ==
    IF f \in {"variables", "connections"} THEN h[context[f]] ELSE context[f]

\* `after` is `before` with the items of new_variables laid over it
Overridden(before, new_variables, after) ==
    LET over == IF new_variables.some THEN new_variables.val ELSE EmptyDict
    IN  /\ DOMAIN after = DOMAIN before \cup DOMAIN over
        /\ \A name \in DOMAIN over : after[name] = over[name]
        /\ \A name \in DOMAIN before \ DOMAIN over : after[name] = before[name]

(* C19: with_updates never edits the receiver: after any sequence of calls
   every RunContext holds the variables and the active_connection it was
   created with; the returned context's variables are the receiver's with
   new_variables laid over them; and every field the call does not name is
   equal in receiver and result *)
C19_ReceiverNeverEdited ==
    /\ \A i \in 1..Len(contexts) : Held(heap, contexts[i]) = made[i]
    /\ call.at = "returned" =>
        /\ Held(heap, contexts[call.self]) = call.before
        /\ Overridden(call.before.variables, call.new_variables,
                      heap[contexts[call.returned].variables])
        /\ \A f \in ContextFields \ NamedFields(call) :
                FieldValue(heap, contexts[call.returned], f)
                    = FieldValue(heap, contexts[call.self], f)

\* the receiver was itself returned by a call that set only active_connection,
\* so it shares its variables dict with the first context; the last call laid
\* a new value over a variable the receiver holds and returned a new context
C19_Witness ==
    /\ Len(contexts) = 3
    /\ contexts[2].variables = contexts[1].variables
    /\ call.at = "returned"
    /\ call.self = 2
    /\ call.returned = 3
    /\ call.new_variables.some
    /\ \E name \in DOMAIN call.new_variables.val :
            /\ name \in DOMAIN call.before.variables
            /\ call.new_variables.val[name] # call.before.variables[name]
    /\ ~call.active_connection.some
    /\ contexts[3].active_connection.some

----------------------------------------------------------------------------
(* cx_kit.utils.serialization: safe_serialize, over Python values of the
   types it tests for and of the types it lets through *)

\* deepest nesting of containers in the `data` argument
MaxDepth == 2

PyBool(b) == <<"bool", b>>

\* a float, by its repr
PyFloat(digits) == <<"float", digits>>

PyTuple(items) == <<"tuple", items>>

PySet(items) == <<"set", items>>

\* a datetime: its local time in ISO 8601 and the UTC offset of its tzinfo,
\* <<>> when tzinfo is None
PyDatetime(local, offset) == <<"datetime", local, offset>>

PyDate(iso) == <<"date", iso>>

\* a UUID, by its canonical text
PyUUID(text) == <<"UUID", text>>

\* a Decimal, by its digits
PyDecimal(digits) == <<"Decimal", digits>>

\* bytes: the sequence of byte values
PyBytes(octets) == <<"bytes", octets>>

\* a pydantic model, by the dict its model_dump() returns
PyModel(dumped) == <<"BaseModel", dumped>>

\* pd.Timestamp
PdTimestamp(local, offset) == <<"Timestamp", local, offset>>

\* a NumPy scalar: its dtype and the value it holds
NpGeneric(dtype, held) == <<"np.generic", dtype, held>>

\* a one-dimensional NumPy array: its dtype and the values it holds
NpArray(dtype, values) == <<"np.ndarray", dtype, values>>

Utc == <<"+", "0", "0", ":", "0", "0">>

\* the text as it is, nothing replaced
StrKept(s, old, new) == s

\* str.replace(old, new)
RECURSIVE StrReplace(_, _, _)
StrReplace(s, old, new) ==
    IF Len(s) < Len(old) THEN s
    ELSE IF SubSeq(s, 1, Len(old)) = old
         THEN new \o StrReplace(SubSeq(s, Len(old) + 1, Len(s)), old, new)
         ELSE <<s[1]>> \o StrReplace(Tail(s), old, new)

\* datetime.isoformat(): the local time, then the offset of an aware one
isoformat(d) == d[2] \o d[3]

\* datetime.replace(tzinfo=timezone.utc)
replace_tzinfo_utc(d) == PyDatetime(d[2], Utc)

\* pd.Timestamp.to_pydatetime()
to_pydatetime(ts) == PyDatetime(ts[2], ts[3])

\* np.generic.item(): the Python scalar of the dtype
item(dtype, held) ==
    CASE dtype = "int64" -> PyInt(held)
      [] dtype = "float64" -> PyFloat(held)
      [] dtype = "bool_" -> PyBool(held)
      [] dtype = "datetime64[s]" -> PyDatetime(held, <<>>)
      [] dtype = "datetime64[D]" -> PyDate(held)
      [] dtype = "bytes_" -> PyBytes(held)
      [] dtype = "object" -> held

\* np.ndarray.tolist(): a list of item() of each element; the elements of an
\* object array are the Python objects themselves
tolist(a) == PyList([i \in 1..Len(a[3]) |-> item(a[2], a[3][i])])

\* str(key) of a dict key
StrOfKey(k) == IF k[1] = "int" THEN Digits(k[2]) ELSE k[2]

\* d[key] = v on the items of a dict
DictSet(items, key, held) ==
    IF \E i \in 1..Len(items) : items[i][1] = key
    THEN [i \in 1..Len(items) |-> IF items[i][1] = key THEN <<key, held>> ELSE items[i]]
    ELSE Append(items, <<key, held>>)

\* bytes.decode("utf-8") succeeds: of the bytes used, those below 0x80
ValidUtf8(octets) == \A i \in 1..Len(octets) : octets[i] < 128

\* the character of an ASCII byte
Chr(octet) == IF octet = 97 THEN "a" ELSE "b"

decode(octets) == [i \in 1..Len(octets) |-> Chr(octets[i])]

\* f"<binary data of size {len(data)} bytes>"
BinaryDataOfSize(n) ==
    <<"<", "b", "i", "n", "a", "r", "y", " ", "d", "a", "t", "a", " ", "o", "f", " ", "s", "i", "z", "e", " ">> \o Digits(n) \o <<" ", "b", "y", "t", "e", "s", ">">>

RECURSIVE safe_serialize(_), SerializedItems(_, _, _)
safe_serialize(d) ==
    CASE d[1] = "list" -> PyList([i \in 1..Len(d[2]) |-> safe_serialize(d[2][i])])
      [] d[1] = "dict" -> PyDict(SerializedItems(d[2], 1, <<>>))
      [] d[1] = "BaseModel" -> safe_serialize(d[2])
      [] d[1] \in {"Timestamp", "datetime"} ->
            LET dt == IF d[1] = "Timestamp" THEN to_pydatetime(d) ELSE d
                aware == IF Len(dt[3]) = 0 THEN replace_tzinfo_utc(dt) ELSE dt
            IN  PyStr(StrReplace(isoformat(aware), Utc, <<"Z">>))
      [] d[1] = "date" -> PyStr(d[2])
      [] d[1] = "np.generic" -> item(d[2], d[3])
      [] d[1] = "np.ndarray" -> tolist(d)
      [] d[1] = "UUID" -> PyStr(d[2])
      [] d[1] = "Decimal" -> PyFloat(d[2])
      [] d[1] = "bytes" ->
            IF ValidUtf8(d[2]) THEN PyStr(decode(d[2]))
            ELSE PyStr(BinaryDataOfSize(Len(d[2])))
      [] OTHER -> d

\* {str(key): safe_serialize(value) for key, value in data.items()}
SerializedItems(items, k, out) ==
    IF k > Len(items) THEN out
    ELSE SerializedItems(items, k + 1,
            DictSet(out, PyStr(StrOfKey(items[k][1])), safe_serialize(items[k][2])))

LocalTime == <<"2", "0", "2", "0", "-", "0", "1", "-", "0", "2", "T", "0", "3", ":", "0", "4", ":", "0", "5">>

Day == <<"2", "0", "2", "0", "-", "0", "1", "-", "0", "2">>

\* the values that are not containers
Scalars ==
    {PyNone, PyStr(<<"a">>), PyInt(1), PyBool(TRUE), PyFloat(<<"1", ".", "5">>),
     PyDatetime(LocalTime, <<>>), PyDatetime(LocalTime, Utc),
     PyDatetime(LocalTime, <<"+", "0", "2", ":", "0", "0">>),
     PyDate(Day), PdTimestamp(LocalTime, <<>>),
     PyUUID(<<"u", "1">>), PyDecimal(<<"1", ".", "5">>),
     PyBytes(<<97>>), PyBytes(<<255, 97>>),
     NpGeneric("int64", 1), NpGeneric("float64", <<"1", ".", "5">>),
     NpGeneric("bool_", TRUE), NpGeneric("datetime64[s]", LocalTime)}

\* NumPy arrays, of a numeric dtype and of dtype object
Arrays ==
    {NpArray("int64", <<1, 2>>), NpArray("datetime64[D]", <<Day>>),
     NpArray("object", <<PyDecimal(<<"1", ".", "5">>)>>),
     NpArray("object", <<PyStr(<<"a">>)>>)}

\* a value a set or a dict key can hold
Hashable(v) == v[1] \notin {"list", "dict", "set", "np.ndarray", "BaseModel"}

\* the containers holding the value v
ContainersOf(v) ==
    {PyList(<<v>>), PyList(<<v, PyInt(1)>>), PyTuple(<<v>>),
     PyDict(<<<<PyStr(<<"k">>), v>>>>),
     PyDict(<<<<PyInt(1), v>>, <<PyStr(<<"1">>), PyNone>>>>),
     PyModel(PyDict(<<<<PyStr(<<"f">>), v>>>>))}
        \cup (IF Hashable(v) THEN {PySet(<<v>>)} ELSE {})

\* the values nested at most `depth` deep
RECURSIVE Values(_)
Values(depth) ==
    IF depth = 0 THEN Scalars \cup Arrays \cup {PyList(<<>>), PyDict(<<>>)}
    ELSE Values(0) \cup UNION {ContainersOf(v) : v \in Values(depth - 1)}

InitSerialize ==
    /\ steps = <<>>
    /\ pc = "idle"
    /\ result = NoResult
    /\ order = <<>>
    /\ args1 = NoArgs /\ args2 = NoArgs
    /\ hasher = <<>>
    /\ key1 = <<>> /\ key2 = <<>>
    /\ raised = NoError
    /\ run1 = NoRun /\ run2 = NoRun
    /\ calls = NoCalls
    /\ NoContexts
    /\ data \in Values(MaxDepth)
    /\ serialized = NotSerialized
    /\ NotQuoting
    /\ NoSecrets
    /\ NoRegistry

\* the call safe_serialize(data)
Serialize ==
    /\ serialized = NotSerialized
    /\ serialized' = safe_serialize(data)
    /\ UNCHANGED data
    /\ UNCHANGED orchestrationVars
    /\ UNCHANGED <<contextVars, templatingVars, secretsVars, registryVars>>

NextSerialize == Serialize

SpecSerialize == InitSerialize /\ [][NextSerialize]_vars

\* lists, dicts with string keys, strings, numbers, booleans, None
RECURSIVE IsJsonCompatible(_)
IsJsonCompatible(v) ==
    CASE v[1] \in {"none", "str", "int", "float", "bool"} -> TRUE
      [] v[1] = "list" -> \A i \in 1..Len(v[2]) : IsJsonCompatible(v[2][i])
      [] v[1] = "dict" -> \A i \in 1..Len(v[2]) :
                                /\ v[2][i][1][1] = "str"
                                /\ IsJsonCompatible(v[2][i][2])
      [] OTHER -> FALSE

\* v, or a value nested in v, is of one of the types
RECURSIVE HoldsType(_, _)
HoldsType(v, types) ==
    \/ v[1] \in types
    \/ /\ v[1] \in {"list", "tuple", "set"}
       /\ \E i \in 1..Len(v[2]) : HoldsType(v[2][i], types)
    \/ /\ v[1] = "dict"
       /\ \E i \in 1..Len(v[2]) : HoldsType(v[2][i][2], types)
    \/ /\ v[1] = "BaseModel"
       /\ HoldsType(v[2], types)
    \/ /\ v[1] = "np.ndarray"
       /\ v[2] = "object"
       /\ \E i \in 1..Len(v[3]) : HoldsType(v[3][i], types)

Serialized == serialized # NotSerialized

(* C20: safe_serialize returns a structure made only of JSON-compatible
   types (lists, dicts with string keys, strings, numbers, booleans, None)
   for every input built from the types it handles, also when a datetime,
   UUID, Decimal or bytes value sits inside a tuple or a set or comes out of
   the conversion of a NumPy value *)
C20_OnlyJsonCompatible == Serialized => IsJsonCompatible(serialized)

\* a datetime inside a tuple inside a list has been serialized
C20_Witness ==
    /\ Serialized
    /\ data[1] = "list"
    /\ \E i \in 1..Len(data[2]) :
            /\ data[2][i][1] = "tuple"
            /\ HoldsType(data[2][i], {"datetime"})

\* v, or a value nested in v, is a NumPy scalar or array of one of the dtypes
RECURSIVE HoldsDtype(_, _)
HoldsDtype(v, dtypes) ==
    \/ v[1] \in {"np.generic", "np.ndarray"} /\ v[2] \in dtypes
    \/ /\ v[1] \in {"list", "tuple", "set"}
       /\ \E i \in 1..Len(v[2]) : HoldsDtype(v[2][i], dtypes)
    \/ /\ v[1] = "dict"
       /\ \E i \in 1..Len(v[2]) : HoldsDtype(v[2][i][2], dtypes)
    \/ /\ v[1] = "BaseModel"
       /\ HoldsDtype(v[2], dtypes)

(* without tuples and sets, and without NumPy scalars and arrays of dtype
   datetime64, bytes_ or object, in the input, the result is made only of
   JSON-compatible types *)
C20_ListsAndDictsJsonCompatible ==
    (/\ Serialized
     /\ ~HoldsType(data, {"tuple", "set"})
     /\ ~HoldsDtype(data, {"datetime64[s]", "datetime64[D]", "bytes_", "object"}))
        => IsJsonCompatible(serialized)

----------------------------------------------------------------------------
(* build_dependency_graph on lists in which ids repeat and depends_on holds
   two different unknown ids *)

\* most references (depends_on ids and inputs entries) in such a list
MaxListRefs == 3

\* a second id that no step carries
OtherUnknownId == <<"Y">>

\* the ids the steps of such a list carry, any of them more than once
ListIds == {IdPool[1], IdPool[2]}

ListDepNames == ListIds \cup {UnknownId, OtherUnknownId}

ListInputStrs == {IdPool[1] \o <<".", "x">>}

\* the steps with a given id that hold exactly r references
ListStepsWithRefs(id, r) ==
    UNION {StepsOver(id,
                     IF d = 0 THEN {None} ELSE {Some(l) : l \in SeqsOfLen(ListDepNames, d)},
                     SeqsOfLen(ListInputStrs, r - d)) : d \in 0..r}

ListAllocations(n) == {a \in [1..n -> 0..MaxListRefs] : SumTo(a, n) <= MaxListRefs}

\* the lists in which step k has any id of ListIds and holds a[k] references
RECURSIVE ListsWith(_, _)
ListsWith(a, k) ==
    IF k > Len(a) THEN {<<>>}
    ELSE Prepend(UNION {ListStepsWithRefs(id, a[k]) : id \in ListIds}, ListsWith(a, k + 1))

InitLists ==
    /\ \E n \in 1..MaxSteps : \E a \in ListAllocations(n) : steps \in ListsWith(a, 1)
    /\ pc = "start"
    /\ result = NoResult
    /\ order = <<>>
    /\ args1 = NoArgs /\ args2 = NoArgs
    /\ hasher = <<>>
    /\ key1 = <<>> /\ key2 = <<>>
    /\ raised = NoError
    /\ run1 = NoRun /\ run2 = NoRun
    /\ calls = NoCalls
    /\ NoContexts
    /\ NotSerializing
    /\ NotQuoting
    /\ NoSecrets
    /\ NoRegistry

NextLists == Build \/ TopologicalSort

SpecLists == InitLists /\ [][NextLists]_vars

\* the positions <<i, j>> of the depends_on ids that no step carries
UnknownPositions(ss) ==
    {<<i, j>> \in (1..Len(ss)) \X (1..MaxListRefs + 1) :
        /\ j <= Len(ss[i].depends_on.val)
        /\ ss[i].depends_on.val[j] \notin StepIds(ss)}

\* the first of them in declaration order of steps, then list order of depends_on
FirstUnknown(ss) ==
    CHOOSE p \in UnknownPositions(ss) :
        \A q \in UnknownPositions(ss) : p[1] < q[1] \/ (p[1] = q[1] /\ p[2] <= q[2])

(* C24: unknown-dependency detection takes precedence over cycle detection:
   a list with an unknown depends_on id, with or without a dependency cycle,
   fails with the invalid-dependency error, and the step and the missing id
   it reports are the first met in declaration order of steps and list order
   of depends_on *)
C24_UnknownBeforeCycle ==
    (Called /\ ~AllDependsOnKnown(steps)) =>
        /\ result.kind = "invalid_dependency"
        /\ result.step = steps[FirstUnknown(steps)[1]].id
        /\ result.dep = steps[FirstUnknown(steps)[1]].depends_on.val[FirstUnknown(steps)[2]]

\* the call failed on a list that holds a cycle and, after the cycle's edge
\* in list order, two different unknown ids
C24_Witness ==
    /\ pc = "built"
    /\ DeclaredCyclic(steps)
    /\ Cardinality(UnknownPositions(steps)) = 2
    /\ \E p, q \in UnknownPositions(steps) :
            steps[p[1]].depends_on.val[p[2]] # steps[q[1]].depends_on.val[q[2]]
    /\ FirstUnknown(steps) # <<1, 1>>
    /\ result.kind = "invalid_dependency"

\* the step holds an inputs entry prefixed by its own id
SelfInput(step) ==
    \E s \in Range(step.inputs) : HasSeparator(s) /\ ProducerPrefix(s) = step.id

(* C25: a step that lists its own id in depends_on makes the call fail with
   the circular-dependency error (every depends_on id being known, the
   invalid-dependency error coming first otherwise), whereas the same
   self-reference written in inputs, '<own id>.x', is accepted and adds no
   edge *)
C25_SelfDependsOnRejected ==
    Called =>
        /\ (/\ AllDependsOnKnown(steps)
            /\ \E i \in 1..Len(steps) : steps[i].id \in DeclaredExplicit(steps[i]))
                => result.kind = "circular_dependency"
        /\ (/\ AllDependsOnKnown(steps)
            /\ ~DeclaredCyclic(steps)
            /\ \E i \in 1..Len(steps) : SelfInput(steps[i]))
                => /\ result.kind = "ok"
                   /\ \A n \in NodeSet(result.dag) : <<n, n>> \notin result.dag.edges
        /\ \A i \in 1..Len(steps) : \A j \in 1..Len(steps[i].inputs) :
                (/\ HasSeparator(steps[i].inputs[j])
                 /\ ProducerPrefix(steps[i].inputs[j]) = steps[i].id)
                    => \A o \in BuildOutcomes(WithoutInput(steps, i, j)) :
                            o.kind = result.kind /\ o.dag.edges = result.dag.edges

\* the call failed on the self-loop of a step that lists its own id in
\* depends_on, in a list where another step holds an inputs entry prefixed
\* by its own id
C25_Witness ==
    /\ pc = "built"
    /\ result.kind = "circular_dependency"
    /\ \E i \in 1..Len(steps) :
            /\ steps[i].id \in DeclaredExplicit(steps[i])
            /\ result.cycle = <<<<steps[i].id, steps[i].id>>>>
            /\ \E k \in 1..Len(steps) : k # i /\ SelfInput(steps[k])

\* a graph was returned for a list in which a step with a dependency holds an
\* inputs entry prefixed by its own id
C25_AcceptedWitness ==
    /\ pc = "built"
    /\ result.kind = "ok"
    /\ \E i \in 1..Len(steps) :
            /\ SelfInput(steps[i])
            /\ DeclaredExplicit(steps[i]) # {}

\* the index of the last step declared with the id
LastDeclared(ss, id) ==
    CHOOSE i \in 1..Len(ss) : ss[i].id = id /\ \A j \in (i + 1)..Len(ss) : ss[j].id # id

(* C26: on success the nodes of the returned graph are the distinct step ids
   of the input, one node per id, and every node carries step_data, also a
   step referenced as a dependency before its own declaration; when two
   steps share an id the node's step_data is the last step declared with
   that id *)
C26_NodesAreSteps ==
    (Called /\ result.kind = "ok") =>
        /\ NodeSet(result.dag) = StepIds(steps)
        /\ Len(result.dag.nodes) = Cardinality(StepIds(steps))
        /\ result.dag.step_data = {<<id, LastDeclared(steps, id)>> : id \in StepIds(steps)}

\* a graph was returned for a list of three steps, two of them with the same
\* id and different fields, the first step depending on a step declared later
C26_Witness ==
    /\ pc = "built"
    /\ result.kind = "ok"
    /\ Len(steps) = 3
    /\ Cardinality(StepIds(steps)) = 2
    /\ \E i, j \in 1..3 : i < j /\ steps[i].id = steps[j].id /\ steps[i] # steps[j]
    /\ \E j \in 2..3 : steps[j].id \in DeclaredExplicit(steps[1])
                        /\ \A k \in 1..(j - 1) : steps[k].id # steps[j].id

----------------------------------------------------------------------------
\* the two blocks hold equal values in every semantic field
SameSemanticFields == \A f \in SemanticFieldsOfBlock : FieldEqual(args1.block, args2.block, f)

(* C27: the block's id and depends_on are not part of the hashed content:
   two blocks with different ids or different depends_on lists but equal
   semantic fields get the same cache key under the same capability_version
   and the same parent_hashes *)
C27_IdAndDependsOnNotHashed ==
    (/\ BothCalled
     /\ SameVersion
     /\ SameParents
     /\ SameSemanticFields
     /\ \/ args1.block.id # args2.block.id
        \/ args1.block.depends_on # args2.block.depends_on)
    => key2 = key1

\* the second call was given another id and another depends_on list, the
\* block holding a run payload
C27_Witness ==
    /\ BothCalled
    /\ SameVersion
    /\ SameParents
    /\ SameSemanticFields
    /\ args1.block.id # args2.block.id
    /\ args1.block.depends_on # args2.block.depends_on
    /\ args1.block.run # PyNone
    /\ Len(args1.parent_hashes) = 2

----------------------------------------------------------------------------
\* the two values are equal, or one is None and the other the empty string
EqualOrNoneForEmpty(v, w) ==
    \/ v = w
    \/ v = None /\ w = Some(<<>>)
    \/ v = Some(<<>>) /\ w = None

\* the parents of the second call are those of the first with None replaced
\* by '' or '' by None for at least one id
NoneAndEmptySwapped ==
    /\ ParentIds(args1.parent_hashes) = ParentIds(args2.parent_hashes)
    /\ \A id \in ParentIds(args1.parent_hashes) :
            EqualOrNoneForEmpty(ParentValue(args1.parent_hashes, id),
                                ParentValue(args2.parent_hashes, id))
    /\ ChangedEntries(args1.parent_hashes, args2.parent_hashes) # {}

(* C28: a parent entry whose hash is None is hashed exactly like one whose
   hash is the empty string: replacing None by '' or '' by None for any
   parent id of parent_hashes leaves the cache key unchanged *)
C28_NoneHashedAsEmpty ==
    (BothCalled /\ SameBlock /\ SameVersion /\ NoneAndEmptySwapped) => key2 = key1

\* the first call was given '' for a parent, the second None, next to a
\* parent with a hash
C28_Witness ==
    /\ BothCalled /\ SameBlock /\ SameVersion /\ NoneAndEmptySwapped
    /\ Len(args1.parent_hashes) = 2
    /\ \E id \in ParentIds(args1.parent_hashes) :
            /\ ParentValue(args1.parent_hashes, id) = Some(<<>>)
            /\ ParentValue(args2.parent_hashes, id) = None

----------------------------------------------------------------------------
(* cx_kit.utils.templating: sql_quote_filter *)

\* most characters in the text of `value`
MaxChars == 4

\* the characters of the texts: a letter, the single quote and the backslash
QuoteChars == {"a", "'", "\\"}

\* the values passed to the filter: None, a str, an int
QuoteValues ==
    {PyNone} \cup {PyStr(s) : s \in SeqsUpTo(QuoteChars, MaxChars)} \cup {PyInt(7), PyInt(10)}

\* str(value) of a str or an int
StrOf(v) == IF v[1] = "int" THEN Digits(v[2]) ELSE v[2]

\* sql_quote_filter(value)
sql_quote_filter(v) ==
    IF v = PyNone THEN <<"N", "U", "L", "L">>
    ELSE <<"'">> \o StrReplace(StrOf(v), <<"'">>, <<"'", "'">>) \o <<"'">>

InitQuote ==
    /\ steps = <<>>
    /\ pc = "idle"
    /\ result = NoResult
    /\ order = <<>>
    /\ args1 = NoArgs /\ args2 = NoArgs
    /\ hasher = <<>>
    /\ key1 = <<>> /\ key2 = <<>>
    /\ raised = NoError
    /\ run1 = NoRun /\ run2 = NoRun
    /\ calls = NoCalls
    /\ NoContexts
    /\ NotSerializing
    /\ value \in QuoteValues
    /\ quoted = NotQuoted
    /\ NoSecrets
    /\ NoRegistry

\* the call sql_quote_filter(value)
Quote ==
    /\ quoted = NotQuoted
    /\ quoted' = sql_quote_filter(value)
    /\ UNCHANGED value
    /\ UNCHANGED orchestrationVars
    /\ UNCHANGED <<contextVars, serializeVars, secretsVars, registryVars>>

NextQuote == Quote

SpecQuote == InitQuote /\ [][NextQuote]_vars

\* the text read back from between the outer quotes: a pair of single quotes
\* stands for one, a single quote on its own has no reading
RECURSIVE ReadQuoted(_)
ReadQuoted(s) ==
    IF Len(s) = 0 THEN Some(<<>>)
    ELSE IF s[1] # "'"
         THEN LET rest == ReadQuoted(Tail(s))
              IN  IF rest.some THEN Some(<<s[1]>> \o rest.val) ELSE None
    ELSE IF Len(s) >= 2 /\ s[2] = "'"
         THEN LET rest == ReadQuoted(SubSeq(s, 3, Len(s)))
              IN  IF rest.some THEN Some(<<"'">> \o rest.val) ELSE None
    ELSE None

Quoted == quoted # NotQuoted

(* C23: sql_quote_filter returns NULL, unquoted, for None, and otherwise the
   string form of the value between single quotes with every single quote
   inside doubled: the text between the outer quotes holds no unpaired
   single quote and reads back as the string form of the value *)
C23_QuotesDoubled ==
    Quoted =>
        IF value = PyNone THEN quoted = <<"N", "U", "L", "L">>
        ELSE /\ Len(quoted) >= 2
             /\ quoted[1] = "'"
             /\ quoted[Len(quoted)] = "'"
             /\ ReadQuoted(SubSeq(quoted, 2, Len(quoted) - 1)) = Some(StrOf(value))

\* a text with two single quotes in a row, one on its own and a backslash
\* has been quoted
C23_Witness ==
    /\ Quoted
    /\ value[1] = "str"
    /\ Len(value[2]) = 4
    /\ \E i \in 1..3 : value[2][i] = "'" /\ value[2][i + 1] = "'"
    /\ value[2][4] = "\\"
    /\ Len(quoted) = 8

----------------------------------------------------------------------------
(* cx_kit.toolkit.security: ConnectionSecrets.  Its methods are coroutines
   run by one event loop: a coroutine runs until it awaits something that
   suspends it, and the only such point is the await of the backend's
   get_all in _load_if_needed. *)

\* most coroutines started on one instance
MaxCoros == 2

\* the methods that load on first access
SecretMethods == {"get", "get_all", "parse_as"}

\* what the backend's get_all may return: the secrets, before and after a rotation
BackendSecrets == {<<"old">>, <<"new">>}

\* a coroutine: the method it runs, where it stands, and what it returned
Coroutine(method, at, returned) == [method |-> method, pc |-> at, returned |-> returned]

InitSecrets ==
    /\ steps = <<>>
    /\ pc = "idle"
    /\ result = NoResult
    /\ order = <<>>
    /\ args1 = NoArgs /\ args2 = NoArgs
    /\ hasher = <<>>
    /\ key1 = <<>> /\ key2 = <<>>
    /\ raised = NoError
    /\ run1 = NoRun /\ run2 = NoRun
    /\ calls = NoCalls
    /\ NoContexts
    /\ NotSerializing
    /\ NotQuoting
    /\ raw_secrets = None
    /\ coros = <<>>
    /\ backend_calls = 0
    /\ NoRegistry

SecretsFrame ==
    /\ UNCHANGED orchestrationVars
    /\ UNCHANGED <<contextVars, serializeVars, templatingVars, registryVars>>

\* a caller starts get, get_all or parse_as on the instance
StartCoroutine ==
    /\ Len(coros) < MaxCoros
    /\ \E method \in SecretMethods : coros' = Append(coros, Coroutine(method, "start", None))
    /\ UNCHANGED <<raw_secrets, backend_calls>>
    /\ SecretsFrame

\* _load_if_needed up to its await: the test of line 65 and, when nothing is
\* loaded, the call of the backend's get_all, which suspends the coroutine
LoadIfNeeded(c) ==
    /\ c <= Len(coros)
    /\ coros[c].pc = "start"
    /\ IF raw_secrets = None
       THEN /\ backend_calls' = backend_calls + 1
            /\ coros' = [coros EXCEPT ![c].pc = "awaiting"]
       ELSE /\ UNCHANGED backend_calls
            /\ coros' = [coros EXCEPT ![c].pc = "loaded"]
    /\ UNCHANGED raw_secrets
    /\ SecretsFrame

\* the backend answers: the coroutine resumes and assigns self._raw_secrets
Resume(c) ==
    /\ c <= Len(coros)
    /\ coros[c].pc = "awaiting"
    /\ \E secrets \in BackendSecrets : raw_secrets' = Some(secrets)
    /\ coros' = [coros EXCEPT ![c].pc = "loaded"]
    /\ UNCHANGED backend_calls
    /\ SecretsFrame

\* the rest of get, get_all or parse_as: the answer is read off self._raw_secrets
Serve(c) ==
    /\ c <= Len(coros)
    /\ coros[c].pc = "loaded"
    /\ coros' = [coros EXCEPT ![c].pc = "done", ![c].returned = raw_secrets]
    /\ UNCHANGED <<raw_secrets, backend_calls>>
    /\ SecretsFrame

CoroutineStep(c) == LoadIfNeeded(c) \/ Resume(c) \/ Serve(c)

NextSecrets == StartCoroutine \/ \E c \in 1..MaxCoros : CoroutineStep(c)

SpecSecrets == InitSecrets /\ [][NextSecrets]_vars

(* C21: for one ConnectionSecrets instance the backend's get_all is awaited
   at most once, on first access, under any interleaving of concurrent get,
   get_all and parse_as coroutines *)
C21_BackendAwaitedOnce == backend_calls <= 1

\* two coroutines are suspended in the backend's get_all at once
C21_Witness ==
    /\ Len(coros) = 2
    /\ coros[1].pc = "awaiting"
    /\ coros[2].pc = "awaiting"
    /\ coros[1].method # coros[2].method

(* an access that starts after a load has been assigned does not go to the
   backend: the backend is awaited once for every coroutine that ran the
   test of line 65 before any assignment, and by no other *)
C21_AwaitedOnlyBeforeFirstLoad ==
    /\ [][backend_calls' # backend_calls => raw_secrets = None]_vars
    /\ [][raw_secrets # None => raw_secrets' # None]_vars

----------------------------------------------------------------------------
(* cx_kit.toolkit.agentic: ToolRegistry.  A plugin is an entry of
   discover_plugins(): its key, whether load_strategy(key) raises, whether
   get_functions() raises, and the names of the functions it returns.  The
   capability instance load_strategy returns is named by the plugin's key,
   and a FunctionSignature by the key of its capability and its name. *)

\* most plugins discovered
MaxPlugins == 2

PluginKeys == <<"p1", "p2", "p3">>

FunctionNames == {"f", "g"}

\* a name no plugin advertises
UnknownFunction == "h"

\* the lists get_functions may return
FunctionLists == {<<>>, <<"f">>, <<"g">>, <<"f", "g">>}

Plugin(key, load_raises, functions_raise, functions) ==
    [key |-> key, load_raises |-> load_raises, functions_raise |-> functions_raise,
     functions |-> functions]

\* the plugins with a given key: load_strategy raises, get_functions raises,
\* or the functions are returned
PluginsWithKey(key) ==
    {Plugin(key, TRUE, FALSE, <<>>), Plugin(key, FALSE, TRUE, <<>>)}
        \cup {Plugin(key, FALSE, FALSE, fs) : fs \in FunctionLists}

\* what discover_plugins() may return: n plugins, in the order of the dict
RECURSIVE PluginLists(_)
PluginLists(n) ==
    IF n = 0 THEN {<<>>}
    ELSE {Append(l, p) : l \in PluginLists(n - 1), p \in PluginsWithKey(PluginKeys[n])}

FunctionSignature(capability, name) == [capability |-> capability, name |-> name]

\* self._tool_map[func_sig.name] = capability_instance
MapSet(map, name, capability) ==
    [n \in DOMAIN map \cup {name} |-> IF n = name THEN capability ELSE map[n]]

\* for func_sig in functions: the map after the loop
RECURSIVE MapFunctions(_, _, _, _)
MapFunctions(map, capability, functions, k) ==
    IF k > Len(functions) THEN map
    ELSE MapFunctions(MapSet(map, functions[k], capability), capability, functions, k + 1)

\* the registry during discovery: _tool_schemas and _tool_map
Registry(schemas, map) == [schemas |-> schemas, map |-> map]

\* the functions listed without being entered in the map
LoadCapabilityUnmapped(registry, plugin) ==
    IF plugin.load_raises \/ plugin.functions_raise THEN registry
    ELSE Registry(registry.schemas
                    \o [k \in 1..Len(plugin.functions) |->
                            FunctionSignature(plugin.key, plugin.functions[k])],
                  registry.map)

\* the body of the loop over the discovered plugins: an exception of
\* load_strategy or get_functions is logged and the plugin left out
LoadCapability(registry, plugin) ==
    IF plugin.load_raises \/ plugin.functions_raise THEN registry
    ELSE Registry(registry.schemas
                    \o [k \in 1..Len(plugin.functions) |->
                            FunctionSignature(plugin.key, plugin.functions[k])],
                  MapFunctions(registry.map, plugin.key, plugin.functions, 1))

RECURSIVE LoadCapabilities(_, _, _)
LoadCapabilities(registry, all_capabilities, k) ==
    IF k > Len(all_capabilities) THEN registry
    ELSE LoadCapabilities(LoadCapability(registry, all_capabilities[k]), all_capabilities, k + 1)

EmptyMap == [n \in {} |-> ""]

\* get_all_schemas(): the registry after the call; discovery runs only when
\* _tool_schemas is None
get_all_schemas(schemas, map, all_capabilities) ==
    IF schemas = None
    THEN LET registry == LoadCapabilities(Registry(<<>>, EmptyMap), all_capabilities, 1)
         IN  [tool_schemas |-> Some(registry.schemas), tool_map |-> Some(registry.map)]
    ELSE [tool_schemas |-> schemas, tool_map |-> map]

InitRegistry ==
    /\ steps = <<>>
    /\ pc = "idle"
    /\ result = NoResult
    /\ order = <<>>
    /\ args1 = NoArgs /\ args2 = NoArgs
    /\ hasher = <<>>
    /\ key1 = <<>> /\ key2 = <<>>
    /\ raised = NoError
    /\ run1 = NoRun /\ run2 = NoRun
    /\ calls = NoCalls
    /\ NoContexts
    /\ NotSerializing
    /\ NotQuoting
    /\ NoSecrets
    /\ \E n \in 0..MaxPlugins : plugins \in PluginLists(n)
    /\ tool_schemas = None
    /\ tool_map = None
    /\ lookup = NoLookup

RegistryFrame ==
    /\ UNCHANGED orchestrationVars
    /\ UNCHANGED <<contextVars, serializeVars, templatingVars, secretsVars>>

\* a call of get_all_schemas()
GetAllSchemas ==
    /\ \E after \in {get_all_schemas(tool_schemas, tool_map, plugins)} :
            /\ tool_schemas' = after.tool_schemas
            /\ tool_map' = after.tool_map
    /\ UNCHANGED <<plugins, lookup>>
    /\ RegistryFrame

\* a call of get_capability_for_function(function_name): discovery first when
\* the map is None, then the capability of the map or the NameError
GetCapabilityForFunction ==
    /\ \E function_name \in FunctionNames \cup {UnknownFunction} :
        \E after \in {IF tool_map = None
                      THEN get_all_schemas(tool_schemas, tool_map, plugins)
                      ELSE [tool_schemas |-> tool_schemas, tool_map |-> tool_map]} :
            /\ tool_schemas' = after.tool_schemas
            /\ tool_map' = after.tool_map
            /\ lookup' = IF function_name \in DOMAIN after.tool_map.val
                         THEN [name |-> function_name, at |-> "returned",
                               returned |-> after.tool_map.val[function_name]]
                         ELSE [name |-> function_name, at |-> "NameError", returned |-> <<>>]
    /\ UNCHANGED plugins
    /\ RegistryFrame

NextRegistry == GetAllSchemas \/ GetCapabilityForFunction

SpecRegistry == InitRegistry /\ [][NextRegistry]_vars

\* the plugin loads: neither load_strategy nor get_functions raises
Loads(plugin) == ~plugin.load_raises /\ ~plugin.functions_raise

\* the plugin with the key loads and its get_functions returns the name
Advertises(key, name) ==
    \E i \in 1..Len(plugins) :
        /\ plugins[i].key = key
        /\ Loads(plugins[i])
        /\ name \in Range(plugins[i].functions)

\* the signatures returned are those of the plugin at position k and after
RECURSIVE FunctionsFrom(_, _)
FunctionsFrom(schemas, k) ==
    IF k > Len(plugins) THEN Len(schemas) = 0
    ELSE IF ~Loads(plugins[k]) THEN FunctionsFrom(schemas, k + 1)
    ELSE LET n == Len(plugins[k].functions)
         IN  /\ Len(schemas) >= n
             /\ \A j \in 1..n :
                    /\ schemas[j].capability = plugins[k].key
                    /\ schemas[j].name = plugins[k].functions[j]
             /\ FunctionsFrom(SubSeq(schemas, n + 1, Len(schemas)), k + 1)

(* C22: get_all_schemas returns the functions of every discovered capability
   that loads successfully, a capability whose load_strategy or get_functions
   raises being skipped without aborting discovery, and for every function
   signature of the returned list get_capability_for_function(name) returns
   a capability that advertised that name *)
C22_FailedCapabilitiesSkipped ==
    /\ tool_schemas # None =>
        /\ FunctionsFrom(tool_schemas.val, 1)
        /\ tool_map # None
        /\ \A j \in 1..Len(tool_schemas.val) :
                /\ tool_schemas.val[j].name \in DOMAIN tool_map.val
                /\ Advertises(tool_map.val[tool_schemas.val[j].name], tool_schemas.val[j].name)
    /\ lookup.at # "none" =>
        /\ tool_schemas # None
        /\ (\E j \in 1..Len(tool_schemas.val) : tool_schemas.val[j].name = lookup.name)
                => (lookup.at = "returned" /\ Advertises(lookup.returned, lookup.name))
        /\ lookup.at = "returned" => Advertises(lookup.returned, lookup.name)

\* the first plugin failed, the second loaded and its function was looked up
C22_Witness ==
    /\ Len(plugins) = 2
    /\ ~Loads(plugins[1])
    /\ Loads(plugins[2])
    /\ tool_schemas # None
    /\ Len(tool_schemas.val) = 2
    /\ lookup.at = "returned"
    /\ lookup.returned = plugins[2].key

====
